---- MODULE Spec2Model ----
(***************************************************************************)
(* A model of the benchforge benchmark harness.                            *)
(*                                                                         *)
(* Several state machines share this module, each with its own             *)
(* specification:                                                          *)
(*   SpecWorker      - one worker run: the parent's promise, its 60 s      *)
(*                     timer and event handlers (RunnerOrchestrator.ts)    *)
(*                     against the child process (WorkerScript.ts);        *)
(*   SpecSuite       - the suite and matrix schedulers (RunBenchCLI.ts,    *)
(*                     BenchMatrix.ts);                                    *)
(*   SpecAdaptive    - the adaptive sampling loop (AdaptiveWrapper.ts);    *)
(*   SpecConvergence - one checkConvergence call (AdaptiveWrapper.ts);     *)
(*   SpecCollect     - the collector of one benchmark (BasicRunner);       *)
(*   SpecMatrix, SpecFilter - runMatrix and filterMatrix;                  *)
(*   SpecBootstrap   - one bootstrapDifferenceCI call;                     *)
(*   SpecMerge       - mergeResults over the batches of a benchmark;       *)
(*   SpecParseGc, SpecGcCapture - parseGcLine and the capture of the       *)
(*                     child's GC trace (GcStats.ts,                       *)
(*                     RunnerOrchestrator.ts).                             *)
(* A specification leaves the variables of the other machines unchanged.   *)
(***************************************************************************)
EXTENDS Integers, Sequences, FiniteSets, TLC

VARIABLES
    \* ---- worker run: parent side (RunnerOrchestrator.ts) ----
    promise,      \* the promise returned by runWorkerWithMessage
    timeoutId,    \* the 60 s timer of createCleanup: "armed", "cleared", "fired"
    killed,       \* worker.killed
    killCalls,    \* number of worker.kill("SIGTERM") calls made
    handled,      \* the events the parent has handled, in order
    \* ---- worker run: the channel and the operating system ----
    runMsg,       \* the RunMessage: "inflight" or "received"
    ipc,          \* messages child -> parent not yet handled by the parent
    sigterm,      \* a SIGTERM sent by the parent, not yet delivered
    exitEvent,    \* the child's 'exit' event: "none", "pending", "handled"
    wclock,       \* minutes since the run message was sent
    \* ---- worker run: child side (WorkerScript.ts) ----
    cstate,       \* "waiting", "awaiting", "looping", "sending", "exited"
    pendingSend,  \* the sendAndExit call whose callback has not run yet
    childExit,    \* "none", "0", "1" or "null" (killed by a signal)
    replies,      \* the replies the child passed to process.send, in order
    otherSent,    \* number of messages of another type sent by user code
    \* ---- suite and matrix scheduling (RunBenchCLI.ts, BenchMatrix.ts) ----
    config,       \* the suite or matrix being run, and its options
    cursor,       \* number of benchmark runs started so far
    running,      \* the runs whose promise has not settled: positions in the plan
    status,       \* "running", "done" or "failed" (a run rejected)
    slog,          \* the runs started so far, in order
    \* ---- adaptive sampling of one benchmark (AdaptiveWrapper.ts) ----
    limits,       \* minTime, maxTime, targetConfidence of the run
    allSamples,   \* the samples collected so far, in ms
    aclock,       \* performance.now() - startTime at the last reading, in ms
    apc,          \* "initial", "loop", or the way the loop ended
    checks,       \* number of convergence checks made
    lastCheck,    \* elapsed and convergence of the last check
    lastRun,      \* options and samples of the last base runner call
    startTime     \* ms from the call of runAdaptiveBench to the start of the
                  \* adaptive clock; -1 while the clock has not started
    ,
    \* ---- the collector of one benchmark (BasicRunner, collectSamples) ----
    cparams,        \* the CollectParams p
    cpc,            \* "start", "settling", "loop", "done", or the error thrown
    warmupRuns,     \* warmup iterations of the benchmark executed
    settled,        \* the settle sleep after warmup has been taken
    count,          \* measured iterations executed: samples.length
    loopNow,        \* performance.now() - loopStart at the last reading, in ms
    totalPauseTime, \* the time spent in scheduled pauses, as accumulated
    loopElapsed,    \* the variable elapsed of runSampleLoop
    busyTime,       \* the time the loop spent outside scheduled pauses
    pausePoints,    \* the pause points recorded, in order
    gcCalls,        \* number of gc() calls made
    arrays,         \* the lengths of the arrays samples, timestamps, heapSamples
    \* ---- one matrix: filterMatrix and runMatrix (MatrixFilter.ts, BenchMatrix.ts) ----
    matrix,         \* the BenchMatrix, with the filtered lists filterMatrix adds
    mfilter,        \* the MatrixFilter given to filterMatrix
    moptions,       \* the RunMatrixOptions given to runMatrix
    mpc,            \* "start", "running", "done", or the error thrown
    mwork,          \* the kinds of work done so far
    mresults,       \* the VariantResult list built so far; the matrix filterMatrix returned
    \* ---- one bootstrapDifferenceCI call (StatisticalUtils.ts) ----
    bargs,          \* the arguments: baseline, current, options.resamples
    bpc,            \* "loop" or "returned"
    diffs,          \* the array diffs
    bresult,        \* the DifferenceCI returned
    \* ---- merging batch results (RunBenchCLI.ts) ----
    batchResults,   \* the MeasuredResults of the batches of one benchmark, in order
    merged,         \* the MeasuredResults mergeResults returned
    \* ---- GC trace capture of one worker run (RunnerOrchestrator.ts, GcStats.ts) ----
    childStdout,    \* the text the child wrote to stdout before its result message
    pipe,           \* the part of it not yet delivered in a 'data' event
    buffer,         \* the variable buffer of setupGcCapture
    gcEvents,       \* the array gcEvents
    parentStdout,   \* the strings passed to process.stdout.write, in order
    resultMsg,      \* the child's result message: "inflight" or "handled"
    gcStats,        \* the gcStats attached to the results, if any
    gcLine,         \* the argument of one parseGcLine call
    gcEvent         \* what that call returned

wvars == <<promise, timeoutId, killed, killCalls, handled, runMsg, ipc, sigterm,
           exitEvent, wclock, cstate, pendingSend, childExit, replies, otherSent>>

svars == <<config, cursor, running, status, slog>>

avars == <<limits, allSamples, aclock, apc, checks, lastCheck, lastRun, startTime>>

cvars == <<cparams, cpc, warmupRuns, settled, count, loopNow, totalPauseTime,
           loopElapsed, busyTime, pausePoints, gcCalls, arrays>>

mvars == <<matrix, mfilter, moptions, mpc, mwork, mresults>>

bvars == <<bargs, bpc, diffs, bresult>>

rvars == <<batchResults, merged>>

gvars == <<childStdout, pipe, buffer, gcEvents, parentStdout, resultMsg, gcStats,
           gcLine, gcEvent>>

vars == <<wvars, svars, avars, cvars, mvars, bvars, rvars, gvars>>

\* what the worker machine, the scheduler and the adaptive controller leave
\* alone
notWorker == <<svars, avars, cvars, mvars, bvars, rvars, gvars>>
notSuite == <<wvars, avars, cvars, mvars, bvars, rvars, gvars>>
notAdaptive == <<wvars, svars, cvars, mvars, bvars, rvars, gvars>>
notCollect == <<wvars, svars, avars, mvars, bvars, rvars, gvars>>
notMatrix == <<wvars, svars, avars, cvars, bvars, rvars, gvars>>
notBootstrap == <<wvars, svars, avars, cvars, mvars, rvars, gvars>>
notMerge == <<wvars, svars, avars, cvars, mvars, bvars, gvars>>
notGc == <<wvars, svars, avars, cvars, mvars, bvars, rvars>>

\* the values a machine's variables keep under the specifications of the others
IdleWorker ==
    /\ promise = [state |-> "none", value |-> "none"]
    /\ timeoutId = "cleared"
    /\ killed = FALSE
    /\ killCalls = 0
    /\ handled = <<>>
    /\ runMsg = "none"
    /\ ipc = <<>>
    /\ sigterm = FALSE
    /\ exitEvent = "none"
    /\ wclock = 0
    /\ cstate = "exited"
    /\ pendingSend = [type |-> "none", exitCode |-> "none"]
    /\ childExit = "none"
    /\ replies = <<>>
    /\ otherSent = 0

IdleSuite ==
    /\ config = [mode |-> "none"]
    /\ cursor = 0
    /\ running = {}
    /\ status = "done"
    /\ slog = <<>>

IdleAdaptive ==
    /\ limits = [minTime |-> 0, maxTime |-> 0, targetConfidence |-> 0]
    /\ allSamples = <<>>
    /\ aclock = 0
    /\ apc = "idle"
    /\ checks = 0
    /\ lastCheck = [elapsed |-> 0]
    /\ lastRun = [samples |-> <<>>]
    /\ startTime = 0

IdleCollect ==
    /\ cparams = [benchmark |-> "none"]
    /\ cpc = "idle"
    /\ warmupRuns = 0
    /\ settled = FALSE
    /\ count = 0
    /\ loopNow = 0
    /\ totalPauseTime = 0
    /\ loopElapsed = 0
    /\ busyTime = 0
    /\ pausePoints = <<>>
    /\ gcCalls = 0
    /\ arrays = [samples |-> 0, timestamps |-> 0, heapSamples |-> 0]

IdleMatrix ==
    /\ matrix = [name |-> "none"]
    /\ mfilter = [name |-> "none"]
    /\ moptions = [name |-> "none"]
    /\ mpc = "idle"
    /\ mwork = {}
    /\ mresults = <<>>

IdleBootstrap ==
    /\ bargs = [name |-> "none"]
    /\ bpc = "idle"
    /\ diffs = <<>>
    /\ bresult = [name |-> "none"]

IdleMerge ==
    /\ batchResults = <<>>
    /\ merged = [name |-> "none"]

IdleGc ==
    /\ childStdout = <<>>
    /\ pipe = <<>>
    /\ buffer = <<>>
    /\ gcEvents = <<>>
    /\ parentStdout = <<>>
    /\ resultMsg = "none"
    /\ gcStats = [def |-> FALSE]
    /\ gcLine = <<>>
    /\ gcEvent = [name |-> "none"]

----------------------------------------------------------------------------
(* Bounds of the model *)

\* how far the clock runs, in minutes
MaxClock == 6
\* how many messages of an unknown type the user code in the child may send
MaxOther == 1
\* how many 'error' events the child process object may emit
MaxErrorEvents == 1
\* groups of a suite, benchmarks of a group, batches of a run
MaxGroups == 2
MaxBenchmarks == 2
MaxBatches == 3
\* variants and cases of a matrix
MaxVariants == 2
MaxCases == 2

(* Program constants *)

\* setTimeout(..., 60000) in createCleanup, in minutes
timeoutMinutes == 1
\* maxLifetime = 5 * 60 * 1000 in WorkerScript.ts, in minutes
maxLifetime == 5
\* (runParams.options.maxTime || 5000) in runMultipleBatches
defaultMaxTime == 5000

----------------------------------------------------------------------------
(* The promise of runWorkerWithMessage *)

Pending == [state |-> "pending", value |-> "none"]

\* resolve / reject of a JavaScript promise: only the first call settles it
Settle(p, state, value) ==
    IF p.state = "pending" THEN [state |-> state, value |-> value] ELSE p

\* createMessageHandler: what the handler does with the promise for a message
messageOutcome_swapped(p, msg) ==
    IF msg.type = "result" THEN Settle(p, "rejected", "benchmarkFailed")
    ELSE IF msg.type = "error" THEN Settle(p, "resolved", "results")
    ELSE p

messageOutcome(p, msg) ==
    IF msg.type = "result" THEN Settle(p, "resolved", "results")
    ELSE IF msg.type = "error" THEN Settle(p, "rejected", "benchmarkFailed")
    ELSE p

\* createExitHandler: the guard  code !== 0 && code !== null
exitRejects(code) == code # "0" /\ code # "null"

\* cleanup(): clearTimeout(timeoutId)
clearTimeout_forgotten(t) == t

clearTimeout(t) == IF t = "armed" THEN "cleared" ELSE t

\* cleanup(): if (!worker.killed) worker.kill("SIGTERM").  kill() succeeds, and
\* sets worker.killed, while the parent still holds the process handle, that is
\* until it has handled the child's exit.
killSucceeds == exitEvent # "handled"

Cleanup(timerAfter) ==
    /\ timeoutId' = timerAfter
    /\ IF killed
         THEN UNCHANGED <<killed, killCalls, sigterm>>
         ELSE /\ killCalls' = killCalls + 1
              /\ killed' = killSucceeds
              /\ sigterm' = (sigterm \/ (killSucceeds /\ cstate # "exited"))

----------------------------------------------------------------------------
(* Parent: event handlers *)

\* worker.on("message", ...)
ParentOnMessage ==
    /\ ipc # <<>>
    /\ LET msg == Head(ipc) IN
         /\ Cleanup(clearTimeout(timeoutId))
         /\ promise' = messageOutcome(promise, msg)
         /\ handled' = Append(handled, msg.type)
    /\ ipc' = Tail(ipc)
    /\ UNCHANGED <<runMsg, exitEvent, wclock, cstate, pendingSend, childExit,
                   replies, otherSent>>
    /\ UNCHANGED notWorker

ErrorEventsHandled == Cardinality({i \in 1..Len(handled) : handled[i] = "errorEvent"})

\* worker.on("error", ...): the process object reports a failure
ParentOnError ==
    /\ ErrorEventsHandled < MaxErrorEvents
    /\ Cleanup(clearTimeout(timeoutId))
    /\ promise' = Settle(promise, "rejected", "workerError")
    /\ handled' = Append(handled, "errorEvent")
    /\ UNCHANGED <<runMsg, ipc, exitEvent, wclock, cstate, pendingSend, childExit,
                   replies, otherSent>>
    /\ UNCHANGED notWorker

\* worker.on("exit", ...)
ParentOnExit ==
    /\ exitEvent = "pending"
    /\ exitEvent' = "handled"
    /\ handled' = Append(handled, "exit" \o childExit)
    /\ IF exitRejects(childExit)
         THEN /\ Cleanup(clearTimeout(timeoutId))
              /\ promise' = Settle(promise, "rejected", "workerExit")
         ELSE UNCHANGED <<promise, timeoutId, killed, killCalls, sigterm>>
    /\ UNCHANGED <<runMsg, ipc, wclock, cstate, pendingSend, childExit, replies,
                   otherSent>>
    /\ UNCHANGED notWorker

\* the callback of setTimeout(..., 60000)
ParentTimeout ==
    /\ timeoutId = "armed"
    /\ wclock >= timeoutMinutes
    /\ Cleanup("fired")
    /\ promise' = Settle(promise, "rejected", "timeout")
    /\ handled' = Append(handled, "timer")
    /\ UNCHANGED <<runMsg, ipc, exitEvent, wclock, cstate, pendingSend, childExit,
                   replies, otherSent>>
    /\ UNCHANGED notWorker

----------------------------------------------------------------------------
(* Child: WorkerScript.ts *)

NoSend == [type |-> "none", exitCode |-> "none", err |-> FALSE]

\* process.exit(code), or death by a signal (code "null")
ChildExits(code) ==
    /\ cstate' = "exited"
    /\ childExit' = code
    /\ exitEvent' = "pending"
    /\ pendingSend' = NoSend

\* process.on("message"): the RunMessage arrives and the handler starts; it
\* first awaits createRunner and resolveBenchmarkFn
ChildReceiveRun ==
    /\ runMsg = "inflight"
    /\ cstate = "waiting"
    /\ runMsg' = "received"
    /\ cstate' = "awaiting"
    /\ UNCHANGED <<promise, timeoutId, killed, killCalls, handled, ipc, sigterm,
                   exitEvent, wclock, pendingSend, childExit, replies, otherSent>>
    /\ UNCHANGED notWorker

\* runner.runBench: the synchronous part (warmup and measurement iterations)
ChildEnterLoop ==
    /\ cstate = "awaiting"
    /\ cstate' = "looping"
    /\ UNCHANGED <<promise, timeoutId, killed, killCalls, handled, runMsg, ipc,
                   sigterm, exitEvent, wclock, pendingSend, childExit, replies,
                   otherSent>>
    /\ UNCHANGED notWorker

\* runner.runBench: an awaited sleep (the settle window or a scheduled pause)
ChildPause ==
    /\ cstate = "looping"
    /\ cstate' = "awaiting"
    /\ UNCHANGED <<promise, timeoutId, killed, killCalls, handled, runMsg, ipc,
                   sigterm, exitEvent, wclock, pendingSend, childExit, replies,
                   otherSent>>
    /\ UNCHANGED notWorker

\* sendAndExit(msg, exitCode): process.send(msg, ..., callback).  The write to
\* the channel succeeds or fails; the callback runs later.
sendAndExit(type, exitCode) ==
    \E ok \in BOOLEAN :
        /\ cstate' = "sending"
        /\ pendingSend' = [type |-> type, exitCode |-> exitCode, err |-> ~ok]
        /\ replies' = Append(replies, [type |-> type, delivered |-> ok])
        /\ ipc' = IF ok THEN Append(ipc, [type |-> type]) ELSE ipc

\* the handler's try block: runBench returned, sendAndExit({type: "result"}, 0)
ChildRunReturns ==
    /\ cstate = "looping"
    /\ sendAndExit("result", "0")
    /\ UNCHANGED <<promise, timeoutId, killed, killCalls, handled, runMsg, sigterm,
                   exitEvent, wclock, childExit, otherSent>>
    /\ UNCHANGED notWorker

\* the handler's catch block: the import or the benchmark function threw,
\* sendAndExit(createErrorMessage(error), 1)
ChildRunThrows ==
    /\ cstate \in {"awaiting", "looping"}
    /\ sendAndExit("error", "1")
    /\ UNCHANGED <<promise, timeoutId, killed, killCalls, handled, runMsg, sigterm,
                   exitEvent, wclock, childExit, otherSent>>
    /\ UNCHANGED notWorker

\* the callback of process.send in sendAndExit: process.exit(exitCode)
ChildSendCallback ==
    /\ cstate = "sending"
    /\ ChildExits(pendingSend.exitCode)
    /\ UNCHANGED <<promise, timeoutId, killed, killCalls, handled, runMsg, ipc,
                   sigterm, wclock, replies, otherSent>>
    /\ UNCHANGED notWorker

\* setTimeout(..., maxLifetime): process.exit(1).  A timer callback runs only
\* when the child's event loop is free, not during synchronous iterations.
ChildLifetime ==
    /\ wclock >= maxLifetime
    /\ cstate \in {"waiting", "awaiting", "sending"}
    /\ ChildExits("1")
    /\ UNCHANGED <<promise, timeoutId, killed, killCalls, handled, runMsg, ipc,
                   sigterm, wclock, replies, otherSent>>
    /\ UNCHANGED notWorker

\* an uncaught failure outside the handler's try block (the script fails to
\* load, an unhandled rejection): node exits with code 1, nothing is sent
ChildCrashes ==
    /\ cstate \in {"waiting", "awaiting"}
    /\ ChildExits("1")
    /\ UNCHANGED <<promise, timeoutId, killed, killCalls, handled, runMsg, ipc,
                   sigterm, wclock, replies, otherSent>>
    /\ UNCHANGED notWorker

\* the parent's SIGTERM reaches the child
ChildTerminated ==
    /\ sigterm
    /\ cstate # "exited"
    /\ sigterm' = FALSE
    /\ ChildExits("null")
    /\ UNCHANGED <<promise, timeoutId, killed, killCalls, handled, runMsg, ipc,
                   wclock, replies, otherSent>>
    /\ UNCHANGED notWorker

\* a signal from elsewhere (the out-of-memory killer, an operator) kills the child
ChildKilled ==
    /\ cstate # "exited"
    /\ ChildExits("null")
    /\ UNCHANGED <<promise, timeoutId, killed, killCalls, handled, runMsg, ipc,
                   sigterm, wclock, replies, otherSent>>
    /\ UNCHANGED notWorker

\* user code in the child calls process.send with a message of its own
ChildSendsOther ==
    /\ cstate \in {"awaiting", "looping"}
    /\ otherSent < MaxOther
    /\ otherSent' = otherSent + 1
    /\ ipc' = Append(ipc, [type |-> "other"])
    /\ UNCHANGED <<promise, timeoutId, killed, killCalls, handled, runMsg, sigterm,
                   exitEvent, wclock, cstate, pendingSend, childExit, replies>>
    /\ UNCHANGED notWorker

\* a minute passes
Tick ==
    /\ wclock < MaxClock
    /\ wclock' = wclock + 1
    /\ UNCHANGED <<promise, timeoutId, killed, killCalls, handled, runMsg, ipc,
                   sigterm, exitEvent, cstate, pendingSend, childExit, replies,
                   otherSent>>
    /\ UNCHANGED notWorker

----------------------------------------------------------------------------
(* One worker run: runWorkerWithMessage has forked the child, registered the
   handlers, armed the timer and sent the RunMessage *)

InitWorker ==
    /\ promise = Pending
    /\ timeoutId = "armed"
    /\ killed = FALSE
    /\ killCalls = 0
    /\ handled = <<>>
    /\ runMsg = "inflight"
    /\ ipc = <<>>
    /\ sigterm = FALSE
    /\ exitEvent = "none"
    /\ wclock = 0
    /\ cstate = "waiting"
    /\ pendingSend = NoSend
    /\ childExit = "none"
    /\ replies = <<>>
    /\ otherSent = 0
    /\ IdleSuite
    /\ IdleAdaptive
    /\ IdleCollect
    /\ IdleMatrix
    /\ IdleBootstrap
    /\ IdleMerge
    /\ IdleGc

NextWorker ==
    \/ ParentOnMessage
    \/ ParentOnError
    \/ ParentOnExit
    \/ ParentTimeout
    \/ ChildReceiveRun
    \/ ChildEnterLoop
    \/ ChildPause
    \/ ChildRunReturns
    \/ ChildRunThrows
    \/ ChildSendCallback
    \/ ChildLifetime
    \/ ChildCrashes
    \/ ChildTerminated
    \/ ChildKilled
    \/ ChildSendsOther
    \/ Tick

SpecWorker == InitWorker /\ [][NextWorker]_vars

\* The event loop of the parent handles every pending event and every timer
\* that is due, and time passes.
FairSpecWorker ==
    /\ SpecWorker
    /\ WF_vars(ParentOnMessage)
    /\ WF_vars(ParentOnExit)
    /\ WF_vars(ParentTimeout)
    /\ WF_vars(Tick)

----------------------------------------------------------------------------
(* Claims about one worker run *)

\* the events that decide the outcome of the run
Deciding == {"result", "error", "errorEvent", "exit1", "timer"}

RECURSIVE FirstDeciding(_)
FirstDeciding(h) ==
    IF h = <<>> THEN "none"
    ELSE IF Head(h) \in Deciding THEN Head(h)
    ELSE FirstDeciding(Tail(h))

OutcomeOf(e) ==
    CASE e = "none"       -> Pending
      [] e = "result"     -> [state |-> "resolved", value |-> "results"]
      [] e = "error"      -> [state |-> "rejected", value |-> "benchmarkFailed"]
      [] e = "errorEvent" -> [state |-> "rejected", value |-> "workerError"]
      [] e = "exit1"      -> [state |-> "rejected", value |-> "workerExit"]
      [] e = "timer"      -> [state |-> "rejected", value |-> "timeout"]

Handled(e) == \E i \in 1..Len(handled) : handled[i] = e

\* C1: the promise of a worker run is pending until the parent handles a
\* result message, an error message, an 'error' event, a non-zero exit or the
\* timer, and from then on it holds the outcome of the first of these events,
\* whatever is handled afterwards.
C1_FirstEventDecides == promise = OutcomeOf(FirstDeciding(handled))

\* C1 witness: the error message was handled first and the exit with code 1
\* afterwards; the promise still holds the benchmark failure.
C1_Witness ==
    /\ Len(handled) >= 2
    /\ handled[1] = "error"
    /\ handled[2] = "exit1"
    /\ promise.value = "benchmarkFailed"

\* C2: every worker run eventually settles in the parent, whatever the child
\* does.
C2_EventuallySettles == <>(promise.state # "pending")

AnyMessageHandled == Handled("result") \/ Handled("error") \/ Handled("other")

ErrorReplyDelivered ==
    \E i \in 1..Len(replies) : replies[i] = [type |-> "error", delivered |-> TRUE]

\* C4: when the benchmark threw in the child (the error message was written to
\* the channel and the child exited with code 1) and neither the timer nor an
\* 'error' event came first, the parent's rejection is the benchmark failure
\* that carries the child's message and stack.
C4_ErrorCarried ==
    (/\ ErrorReplyDelivered
     /\ childExit = "1"
     /\ promise.state = "rejected"
     /\ ~Handled("timer")
     /\ ~Handled("errorEvent"))
    => promise.value = "benchmarkFailed"

\* C5: when the parent handles the exit of a child that ended with a non-zero
\* code or by a signal, and it has handled no message before and the run is
\* still pending, it rejects the run with the worker failure in that step.
C5_AbnormalExitRejects ==
    [][(/\ exitEvent = "pending"
        /\ exitEvent' = "handled"
        /\ childExit \in {"1", "null"}
        /\ ~AnyMessageHandled
        /\ promise.state = "pending")
       => promise' = [state |-> "rejected", value |-> "workerExit"]]_vars

\* C6: the child exits with code 0 only if it has sent exactly one reply, a
\* result message whose delivery succeeded.
C6_ExitZeroOnlyOnDelivery ==
    (childExit = "0") =>
        (replies = <<[type |-> "result", delivered |-> TRUE]>>)

\* C22: a child that is still running when its 5 minutes are over terminates
\* itself at that point, whatever it is doing: a child that is executing
\* measurement iterations when the lifetime has passed does not go on
\* executing them for another minute.
C22_LifetimeEndsLoop ==
    [][(cstate = "looping" /\ wclock >= maxLifetime /\ wclock' > wclock)
          => cstate' # "looping"]_vars

----------------------------------------------------------------------------
(* Suite scheduling: RunBenchCLI.ts.  Each operator gives the runBenchmark
   calls its function makes, in the order it makes them; a run is
   [g: group, who: 0 for the baseline or the benchmark's position, batch,
    maxTime: the time budget passed in the options].  Milliseconds are exact
   fractions [num, den], since a budget need not be a whole number. *)

\* the maxTime option of a suite run in ms; 0 also stands for an unset
\* option (--profile), both being falsy
MaxTimes == {0, 600, 6000}

Ms(num, den) == [num |-> num, den |-> den]

Run(g, who, batch, mt) ==
    [g |-> g, who |-> who, batch |-> batch, maxTime |-> mt]

\* for (const b of benchmarks) ... in declared order
Benches(g, group, batch, mt) ==
    [j \in 1..group.nbench |-> Run(g, j, batch, mt)]

\* baseline ? runSingleBenchmark(baseline, ...) : nothing
Baseline(g, group, batch, mt) ==
    IF group.baseline THEN <<Run(g, 0, batch, mt)>> ELSE <<>>

runSingleBatch(g, group, mt) ==
    Baseline(g, group, 0, Ms(mt, 1)) \o Benches(g, group, 0, Ms(mt, 1))

\* const reverseOrder = i % 2 === 1
reverseOrder_flipped(i) == i % 2 = 0

reverseOrder(i) == i % 2 = 1

\* const timePerBatch = (runParams.options.maxTime || 5000) / batches
timePerBatch(mt, batches) ==
    Ms(IF mt # 0 THEN mt ELSE defaultMaxTime, batches)

runBatchIteration(g, group, i, mt) ==
    IF reverseOrder(i)
      THEN Benches(g, group, i, mt) \o Baseline(g, group, i, mt)
      ELSE Baseline(g, group, i, mt) \o Benches(g, group, i, mt)

\* for (let i = 0; i < batches; i++) await runBatchIteration(...): batches i..
RECURSIVE batchesFrom(_, _, _, _, _)
batchesFrom(g, group, i, batches, budget) ==
    IF i >= batches THEN <<>>
    ELSE runBatchIteration(g, group, i, budget)
           \o batchesFrom(g, group, i + 1, batches, budget)

runMultipleBatches(g, group, mt, batches) ==
    batchesFrom(g, group, 0, batches, timePerBatch(mt, batches))

runGroup(g, group, mt, batches) ==
    IF batches = 1 THEN runSingleBatch(g, group, mt)
    ELSE runMultipleBatches(g, group, mt, batches)

\* for (const group of suite.groups) results.push(await runGroup(...))
RECURSIVE groupsFrom(_, _)
groupsFrom(cfg, g) ==
    IF g > Len(cfg.groups) THEN <<>>
    ELSE runGroup(g, cfg.groups[g], cfg.maxTime, cfg.batches) \o groupsFrom(cfg, g + 1)

runSuite(cfg) == groupsFrom(cfg, 1)

(* Matrix scheduling: BenchMatrix.ts.  A run is
   [kind: "variant", "baseline" or "inline", variant, case]. *)

\* runBaselineIfExists: only with baselineDir and a baseline of that name
runBaselineIfExists(cfg, v, c) ==
    IF ~cfg.baselineDir \/ v \notin cfg.baselineIds THEN <<>>
    ELSE <<[kind |-> "baseline", variant |-> v, case |-> c]>>

\* for (const caseId of caseIds): runMatrixVariant, then runBaselineIfExists
RECURSIVE casesFrom(_, _, _)
casesFrom(cfg, v, c) ==
    IF c > cfg.cases THEN <<>>
    ELSE (IF cfg.mode = "matrixDir"
            THEN <<[kind |-> "variant", variant |-> v, case |-> c]>>
                   \o runBaselineIfExists(cfg, v, c)
            ELSE <<[kind |-> "inline", variant |-> v, case |-> c]>>)
         \o casesFrom(cfg, v, c + 1)

runDirVariantCases(cfg, v) == casesFrom(cfg, v, 1)

\* for (const variantId of variantIds) ... in runDirVariants / runMatrixInline
RECURSIVE variantsFrom(_, _)
variantsFrom(cfg, v) ==
    IF v > cfg.variants THEN <<>>
    ELSE runDirVariantCases(cfg, v) \o variantsFrom(cfg, v + 1)

runMatrix(cfg) == variantsFrom(cfg, 1)

\* the runs the configured suite or matrix makes, in program order
Plan(cfg) == IF cfg.mode = "suite" THEN runSuite(cfg) ELSE runMatrix(cfg)

\* results.push(await fn(item)): the loop goes on to the next call only when
\* the promise of the previous one has settled
awaitSettled_parallel(inFlight) == TRUE

awaitSettled(inFlight) == inFlight = {}

Groups == [nbench : 1..MaxBenchmarks, baseline : BOOLEAN]

SuiteConfigs ==
    { [mode |-> "suite", groups |-> gs, batches |-> b, maxTime |-> t] :
        gs \in UNION { [1..n -> Groups] : n \in 1..MaxGroups },
        b \in 1..MaxBatches, t \in MaxTimes }

MatrixConfigs ==
    { [mode |-> m, variants |-> nv, cases |-> nc, baselineDir |-> bd,
       baselineIds |-> ids] :
        m \in {"matrixDir", "matrixInline"}, nv \in 1..MaxVariants,
        nc \in 1..MaxCases, bd \in BOOLEAN, ids \in SUBSET (1..MaxVariants) }

\* runMatrixInline rejects baselineDir; without baselineDir no baseline
\* directory is read
RunnableMatrix(cfg) ==
    /\ cfg.baselineIds \subseteq 1..cfg.variants
    /\ (cfg.mode = "matrixInline") => ~cfg.baselineDir
    /\ ~cfg.baselineDir => cfg.baselineIds = {}

InitSuite ==
    /\ config \in SuiteConfigs \cup {c \in MatrixConfigs : RunnableMatrix(c)}
    /\ cursor = 0
    /\ running = {}
    /\ status = "running"
    /\ slog = <<>>
    /\ IdleWorker
    /\ IdleAdaptive
    /\ IdleCollect
    /\ IdleMatrix
    /\ IdleBootstrap
    /\ IdleMerge
    /\ IdleGc

\* the scheduler calls runBenchmark / runMatrixVariant / runner.runBench for
\* the next run of the plan
StartRun ==
    /\ status = "running"
    /\ cursor < Len(Plan(config))
    /\ awaitSettled(running)
    /\ cursor' = cursor + 1
    /\ running' = running \cup {cursor + 1}
    /\ slog' = Append(slog, Plan(config)[cursor + 1])
    /\ UNCHANGED <<config, status>>
    /\ UNCHANGED notSuite

\* the promise of a run resolves with its results; after the last run the
\* suite or matrix returns
RunResolves ==
    /\ \E r \in running : running' = running \ {r}
    /\ status' = IF status = "running" /\ cursor = Len(Plan(config)) /\ Cardinality(running) = 1
                   THEN "done" ELSE status
    /\ UNCHANGED <<config, cursor, slog>>
    /\ UNCHANGED notSuite

\* the promise of a run rejects: the error propagates through every await and
\* the suite or matrix run rejects, starting nothing more
RunRejects ==
    /\ \E r \in running : running' = running \ {r}
    /\ status' = "failed"
    /\ UNCHANGED <<config, cursor, slog>>
    /\ UNCHANGED notSuite

NextSuite ==
    \/ StartRun
    \/ RunResolves
    \/ RunRejects

SpecSuite == InitSuite /\ [][NextSuite]_vars

----------------------------------------------------------------------------
(* Claims about suite and matrix scheduling *)

\* C7: during a suite or matrix run at most one benchmark run is in progress,
\* and the next run starts only when the previous run's promise has settled
\* with its results (no run in flight, none rejected).
C7_OneRunAtATime ==
    /\ [](Cardinality(running) <= 1)
    /\ [][(cursor' # cursor) => (running = {} /\ status = "running")]_vars

\* C7 witness: a later run of a matrix with baselines is in flight, alone.
C7_Witness ==
    /\ config.mode = "matrixDir"
    /\ cursor >= 3
    /\ running = {cursor}
    /\ slog[cursor].kind = "baseline"

\* the run the claim puts at position k (1-based) of batch i of group g
ClaimedRun(g, group, i, k, budget) ==
    LET n == group.nbench + (IF group.baseline THEN 1 ELSE 0)
        baselineFirst == i % 2 = 0
        who == IF ~group.baseline THEN k
               ELSE IF baselineFirst THEN k - 1
               ELSE IF k = n THEN 0 ELSE k
    IN  [g |-> g, who |-> who, batch |-> i, maxTime |-> budget]

\* the runs the claim gives group g: every batch in turn, each with the
\* baseline and every benchmark once
ClaimedGroup(g, group, batches, budget) ==
    LET n == group.nbench + (IF group.baseline THEN 1 ELSE 0)
    IN  [p \in 1..(n * batches) |->
            ClaimedRun(g, group, (p - 1) \div n, ((p - 1) % n) + 1, budget)]

RECURSIVE ClaimedFrom(_, _, _)
ClaimedFrom(cfg, g, budget) ==
    IF g > Len(cfg.groups) THEN <<>>
    ELSE ClaimedGroup(g, cfg.groups[g], cfg.batches, budget) \o ClaimedFrom(cfg, g + 1, budget)

\* the runs started so far are the first ones of the claimed order, and a
\* suite that returned has made all of them
FollowsClaimedOrder(budget) ==
    config.mode = "suite" =>
        LET claimed == ClaimedFrom(config, 1, budget)
        IN  /\ Len(slog) <= Len(claimed)
            /\ \A p \in 1..Len(slog) : slog[p] = claimed[p]
            /\ (status = "done") => Len(slog) = Len(claimed)

\* C8 as stated: with batches = 1 baseline first, then the benchmarks in
\* declared order; with batches = N > 1 every batch runs the baseline and each
\* benchmark once with a budget of maxTime/N, even batches baseline first, odd
\* batches baseline last.
C8_AsStated == FollowsClaimedOrder(Ms(config.maxTime, config.batches))

\* C8 amended: as stated, except that the budget of a batch is maxTime/N
\* only for a set, non-zero maxTime, and 5000/N ms otherwise.
C8_BatchOrder ==
    FollowsClaimedOrder(
        IF config.batches > 1 /\ config.maxTime = 0
          THEN Ms(defaultMaxTime, config.batches)
          ELSE Ms(config.maxTime, config.batches))

\* C8 witness: a suite of three batches whose first group has a baseline and
\* two benchmarks has returned.
C8_Witness ==
    /\ config.mode = "suite"
    /\ config.batches = 3
    /\ config.groups[1] = [nbench |-> 2, baseline |-> TRUE]
    /\ config.maxTime = 600
    /\ status = "done"

----------------------------------------------------------------------------
(* Adaptive sampling: AdaptiveWrapper.ts.  Times are whole milliseconds;
   ratios are exact fractions [num, den] with den > 0. *)

minTime == 1000
maxTime == 10000
targetConfidence == 95
fallbackThreshold == 80
windowSize == 50
initialBatch == 100
continueBatch == 100
continueIterations == 10
msToNs == 1000000

\* the most samples a run collects before the model stops following it
MaxSamples == 60

RECURSIVE GCD(_, _)
GCD(a, b) == IF b = 0 THEN a ELSE GCD(b, a % b)

Abs(x) == IF x < 0 THEN -x ELSE x

\* the fraction n/d in lowest terms, d > 0
Q(n, d) ==
    LET g == GCD(Abs(n), d)
    IN  [num |-> n \div g, den |-> d \div g]

QInt(n) == [num |-> n, den |-> 1]
QAdd(x, y) == Q(x.num * y.den + y.num * x.den, x.den * y.den)
QSub(x, y) == Q(x.num * y.den - y.num * x.den, x.den * y.den)
QMul(x, y) == Q(x.num * y.num, x.den * y.den)
\* x / y for y > 0
QDiv(x, y) == Q(x.num * y.den, x.den * y.num)
QAbs(x) == [num |-> Abs(x.num), den |-> x.den]
QLess(x, y) == x.num * y.den < y.num * x.den
QLeq(x, y) == x.num * y.den <= y.num * x.den
QMin(x, y) == IF QLess(y, x) THEN y ELSE x
QMax(x, y) == IF QLess(x, y) THEN y ELSE x

\* a number as the program computes it: a fraction, an infinity or NaN
jsNum(q) == [kind |-> "num", q |-> q]
PosInfinity == [kind |-> "inf", q |-> QInt(1)]
NegInfinity == [kind |-> "inf", q |-> QInt(-1)]
NaN == [kind |-> "nan", q |-> QInt(0)]

\* a < b on numbers
jsLess(a, b) ==
    IF a.kind = "nan" \/ b.kind = "nan" THEN FALSE
    ELSE IF a.kind = "inf" THEN a.q.num < 0 /\ ~(b.kind = "inf" /\ b.q.num < 0)
    ELSE IF b.kind = "inf" THEN b.q.num > 0
    ELSE QLess(a.q, b.q)

\* a >= b on numbers
jsGeq(a, b) == a.kind # "nan" /\ b.kind # "nan" /\ ~jsLess(a, b)

\* Math.min(a, b) and Math.max(a, b): NaN if either is NaN
mathMin(a, b) == IF a.kind = "nan" \/ b.kind = "nan" THEN NaN ELSE IF jsLess(b, a) THEN b ELSE a
mathMax(a, b) == IF a.kind = "nan" \/ b.kind = "nan" THEN NaN ELSE IF jsLess(a, b) THEN b ELSE a

\* const stability = 0.05
stability == Q(5, 100)

RECURSIVE SumSeq(_)
SumSeq(xs) == IF xs = <<>> THEN 0 ELSE Head(xs) + SumSeq(Tail(xs))

\* samples.slice(-w)
LastN(xs, w) ==
    IF Len(xs) <= w THEN xs ELSE SubSeq(xs, Len(xs) - w + 1, Len(xs))

\* sorted[Math.max(0, Math.ceil(sorted.length * p) - 1)] for p = pn/pd: the
\* value of that rank is the least value with at least rank values <= it
percentile(values, pn, pd) ==
    LET n == Len(values)
        rank == IF (n * pn + pd - 1) \div pd < 1 THEN 1 ELSE (n * pn + pd - 1) \div pd
        atLeast(x) == Cardinality({i \in 1..n : values[i] <= x}) >= rank
    IN  CHOOSE x \in {values[i] : i \in 1..n} :
            /\ atLeast(x)
            /\ \A y \in {values[i] : i \in 1..n} : atLeast(y) => x <= y

\* allSamples.map(s => s * msToNs)
toNs(samplesMs) == [i \in 1..Len(samplesMs) |-> samplesMs[i] * msToNs]

\* samples.map(s => s / msToNs); the samples followed are whole milliseconds
toMs(samplesNs) == [i \in 1..Len(samplesNs) |-> samplesNs[i] \div msToNs]

\* excessTime / totalTime over the samples above median + 1.5 * (q75 - median)
getOutlierImpact(samples) ==
    IF samples = <<>> THEN QInt(0)
    ELSE LET median == percentile(samples, 1, 2)
             q75 == percentile(samples, 3, 4)
             above(x) == 2 * x > 2 * median + 3 * (q75 - median)
             excess == [i \in 1..Len(samples) |->
                          IF above(samples[i]) THEN samples[i] - median ELSE 0]
             totalTime == SumSeq(samples)
         IN  IF totalTime > 0 THEN Q(SumSeq(excess), totalTime) ELSE QInt(0)

getWindowSize(samples) ==
    IF Len(samples) < 20 THEN windowSize
    ELSE LET recentMedian == QInt(percentile(toMs(LastN(samples, 20)), 1, 2))
         IN  IF QLess(recentMedian, Q(1, 100)) THEN 200
             ELSE IF QLess(recentMedian, Q(1, 10)) THEN 100
             ELSE IF QLess(recentMedian, QInt(1)) THEN 50
             ELSE IF QLess(recentMedian, QInt(10)) THEN 30
             ELSE 20

buildProgressResult(currentSamples, minSamples) ==
    [converged |-> FALSE,
     confidence |-> jsNum(Q(currentSamples * 100, minSamples)),
     reason |-> "Collecting samples"]

\* a drift that is always 0
driftOf_zero(medianRecent, medianPrevious) == jsNum(QInt(0))

\* Math.abs(medianRecent - medianPrevious) / medianPrevious for medians >= 0:
\* a previous median of 0 gives Infinity, or NaN when the recent one is 0 too
driftOf(medianRecent, medianPrevious) ==
    IF medianPrevious # 0 THEN jsNum(Q(Abs(medianRecent - medianPrevious), medianPrevious))
    ELSE IF medianRecent # 0 THEN PosInfinity
    ELSE NaN

getStability(samples, w) ==
    LET n == Len(samples)
        recentMs == toMs(SubSeq(samples, n - w + 1, n))
        previousMs == toMs(SubSeq(samples, n - 2 * w + 1, n - w))
        medianRecent == percentile(recentMs, 1, 2)
        medianPrevious == percentile(previousMs, 1, 2)
        medianDrift == driftOf(medianRecent, medianPrevious)
        impactDrift == jsNum(QAbs(QSub(getOutlierImpact(recentMs), getOutlierImpact(previousMs))))
    IN  [medianDrift |-> medianDrift,
         impactDrift |-> impactDrift,
         medianStable |-> jsLess(medianDrift, jsNum(stability)),
         impactStable |-> jsLess(impactDrift, jsNum(stability))]

\* (1 - drift / stability) * 50 for a drift >= 0
halfConfidence(drift) ==
    IF drift.kind = "num"
      THEN jsNum(QMul(QSub(QInt(1), QDiv(drift.q, stability)), QInt(50)))
    ELSE IF drift.kind = "inf" THEN NegInfinity
    ELSE NaN

\* a + b where b is finite
jsAdd(a, b) == IF a.kind = "num" THEN jsNum(QAdd(a.q, b.q)) ELSE a

buildConvergence(metrics) ==
    IF metrics.medianStable /\ metrics.impactStable
      THEN [converged |-> TRUE, confidence |-> jsNum(QInt(100)),
            reason |-> "Stable performance pattern"]
      ELSE LET confidence == mathMin(jsNum(QInt(100)),
                                     jsAdd(halfConfidence(metrics.medianDrift),
                                           halfConfidence(metrics.impactDrift)))
           IN  [converged |-> FALSE,
                confidence |-> mathMax(jsNum(QInt(0)), confidence),
                reason |-> IF jsLess(metrics.impactDrift, metrics.medianDrift)
                             THEN "Median drifting" ELSE "Outlier impact changing"]

checkConvergence(samples) ==
    LET w == getWindowSize(samples)
        minSamples == w * 2
    IN  IF Len(samples) < minSamples
          THEN buildProgressResult(Len(samples), minSamples)
          ELSE buildConvergence(getStability(samples, w))

\* shouldStop without the fallback threshold
shouldStop_noFallback(convergence, target, elapsedTime, minT) ==
    \/ convergence.converged /\ jsGeq(convergence.confidence, jsNum(QInt(target)))
    \/ elapsedTime >= minT /\ jsGeq(convergence.confidence, jsNum(QInt(target)))

shouldStop(convergence, target, elapsedTime, minT) ==
    \/ convergence.converged /\ jsGeq(convergence.confidence, jsNum(QInt(target)))
    \/ LET threshold == IF target > fallbackThreshold THEN target ELSE fallbackThreshold
       IN  elapsedTime >= minT /\ jsGeq(convergence.confidence, jsNum(QInt(threshold)))

(* The base runner: a measurement loop that starts another iteration while
   count < maxIterations (when set) and elapsed < maxTime, so it returns k
   samples only if the first k - 1 of them took less than maxTime. *)

SampleCounts == {10, 60}
SampleValues == {1, 2}

\* options.minTime ?? minTime etc. in runAdaptiveBench
MinTimes == {0, minTime}
AdaptiveMaxTimes == {300, maxTime}
Targets == {50, targetConfidence}

\* time between the two clock readings of one loop iteration
CheckDurations == {0, 50}
\* time a base runner call takes beyond its samples: none, or a long stall
Overheads == {0, 1000}

\* maxIterations 0 stands for undefined, as in the loop condition
RunnerResults(opts) ==
    { [j \in 1..k |-> v] : k \in {c \in SampleCounts :
                                    opts.maxIterations = 0 \/ c <= opts.maxIterations},
                           v \in SampleValues }

CanReturn(opts, samples) ==
    SumSeq(SubSeq(samples, 1, Len(samples) - 1)) < opts.maxTime

InitAdaptive ==
    /\ limits \in [minTime : MinTimes, maxTime : AdaptiveMaxTimes, targetConfidence : Targets]
    /\ allSamples = <<>>
    /\ aclock = 0
    /\ apc = "initial"
    /\ checks = 0
    /\ lastCheck = [elapsed |-> 0]
    /\ lastRun = [samples |-> <<>>]
    /\ startTime = -1
    /\ IdleWorker
    /\ IdleSuite
    /\ IdleCollect
    /\ IdleMatrix
    /\ IdleBootstrap
    /\ IdleMerge
    /\ IdleGc

\* the adaptive clock started when runAdaptiveBench was called
clockStart_atCall(now) == 0

\* const startTime = performance.now(), read when collectInitial has returned
clockStart(now) == now

\* collectInitial, then startTime = performance.now(); the initial batch
\* takes its samples and the time of warmup and settle
CollectInitial ==
    /\ apc = "initial"
    /\ LET opts == [maxTime |-> initialBatch, maxIterations |-> 0, skipWarmup |-> FALSE]
       IN  \E samples \in RunnerResults(opts), o \in Overheads :
             /\ CanReturn(opts, samples)
             /\ allSamples' = allSamples \o samples
             /\ lastRun' = [opts |-> opts, samples |-> samples]
             /\ startTime' = clockStart(SumSeq(samples) + o)
             /\ aclock' = SumSeq(samples) + o - startTime'
    /\ apc' = "loop"
    /\ UNCHANGED <<limits, checks, lastCheck>>
    /\ UNCHANGED notAdaptive

\* while (performance.now() - startTime < maxTime) fails
LoopExit ==
    /\ apc = "loop"
    /\ ~(aclock < limits.maxTime)
    /\ apc' = "maxTime"
    /\ UNCHANGED <<limits, allSamples, aclock, checks, lastCheck, lastRun, startTime>>
    /\ UNCHANGED notAdaptive

\* one loop iteration that ends in break
StopEarly ==
    /\ apc = "loop"
    /\ aclock < limits.maxTime
    /\ LET convergence == checkConvergence(toNs(allSamples))
       IN  \E d \in CheckDurations :
             LET elapsed == aclock + d
             IN  /\ shouldStop(convergence, limits.targetConfidence, elapsed, limits.minTime)
                 /\ lastCheck' = [elapsed |-> elapsed, convergence |-> convergence]
                 /\ aclock' = elapsed
    /\ checks' = checks + 1
    /\ apc' = "break"
    /\ UNCHANGED <<limits, allSamples, lastRun, startTime>>
    /\ UNCHANGED notAdaptive

\* one loop iteration that runs a continuation batch and appends its samples
ContinueBatch ==
    /\ apc = "loop"
    /\ aclock < limits.maxTime
    /\ LET convergence == checkConvergence(toNs(allSamples))
           opts == [maxTime |-> continueBatch,
                    maxIterations |-> continueIterations,
                    skipWarmup |-> TRUE]
       IN  \E d \in CheckDurations :
             LET elapsed == aclock + d
             IN  /\ ~shouldStop(convergence, limits.targetConfidence, elapsed, limits.minTime)
                 /\ lastCheck' = [elapsed |-> elapsed, convergence |-> convergence]
                 /\ \E samples \in RunnerResults(opts), o \in Overheads :
                      /\ CanReturn(opts, samples)
                      /\ Len(allSamples) + Len(samples) <= MaxSamples
                      /\ allSamples' = allSamples \o samples
                      /\ lastRun' = [opts |-> opts, samples |-> samples]
                      /\ aclock' = elapsed + SumSeq(samples) + o
    /\ checks' = checks + 1
    /\ UNCHANGED <<limits, apc, startTime>>
    /\ UNCHANGED notAdaptive

NextAdaptive ==
    \/ CollectInitial
    \/ LoopExit
    \/ StopEarly
    \/ ContinueBatch

SpecAdaptive == InitAdaptive /\ [][NextAdaptive]_vars

----------------------------------------------------------------------------
(* Claims about adaptive sampling *)

\* the confidence is a number and at least t
ConfidenceAtLeast(conf, t) == conf.kind = "num" /\ QLeq(QInt(t), conf.q)

\* C9: the controller never stops early (at a check with elapsed < maxTime)
\* unless at least minTime has elapsed on the adaptive clock and confidence is
\* at least targetConfidence.
C9_NoEarlyStopBeforeMinTime ==
    (apc = "break" /\ lastCheck.elapsed < limits.maxTime) =>
        /\ lastCheck.elapsed >= limits.minTime
        /\ ConfidenceAtLeast(lastCheck.convergence.confidence, limits.targetConfidence)

\* the stop rule in the words of the claim
ClaimedStop(check, lim) ==
    LET conf == check.convergence.confidence
        floor == IF lim.targetConfidence >= 80 THEN lim.targetConfidence ELSE 80
    IN  \/ check.convergence.converged /\ ConfidenceAtLeast(conf, lim.targetConfidence)
        \/ check.elapsed >= lim.minTime /\ ConfidenceAtLeast(conf, floor)

ContinuationStarted == apc = "loop" /\ Len(allSamples') > Len(allSamples)

\* the clock starts when the initial batch is over, none of its time counted
ClockStartsAfterInitial ==
    /\ [](apc = "initial" => startTime = -1)
    /\ [][(apc = "initial" /\ apc' = "loop") =>
            (startTime' >= SumSeq(allSamples') /\ aclock' = 0)]_vars

\* C11 as stated: the adaptive clock starts only after the initial batch has
\* completed, and a continuation batch is started only at a moment when
\* elapsed < maxTime (the clock as last read before the batch is started).
C11_AsStated ==
    /\ ClockStartsAfterInitial
    /\ [][ContinuationStarted => lastCheck'.elapsed < limits.maxTime]_vars

\* C11 amended: the adaptive clock starts only after the initial batch has
\* completed; a continuation batch is started only in a loop iteration whose
\* loop condition read elapsed < maxTime, and once the loop condition reads
\* elapsed >= maxTime no batch begins and the loop ends.
C11_ClockAndLimit ==
    /\ ClockStartsAfterInitial
    /\ [][ContinuationStarted => aclock < limits.maxTime]_vars
    /\ [][(apc = "loop" /\ aclock >= limits.maxTime) =>
            (apc' = "maxTime" /\ allSamples' = allSamples)]_vars

\* C11 witness: the loop has ended on maxTime after continuation batches,
\* the clock having overrun maxTime and the initial batch having taken time.
C11_Witness ==
    /\ apc = "maxTime"
    /\ checks >= 2
    /\ aclock > limits.maxTime
    /\ startTime > 0

----------------------------------------------------------------------------
(* checkConvergence on its own: one call on an array of samples, given in
   whole milliseconds as the controller holds them *)

\* v repeated k times
Repeat(v, k) == [i \in 1..k |-> v]

\* the sample arrays tried: up to three runs of equal durations
BlockLengths == {0, 5, 15, 20, 30}
BlockValues == {0, 1, 2, 20}
ConvergenceInputs ==
    { Repeat(b[1], l[1]) \o Repeat(b[2], l[2]) \o Repeat(b[3], l[3]) :
        b \in [1..3 -> BlockValues], l \in [1..3 -> BlockLengths] }

InitConvergence ==
    /\ allSamples \in ConvergenceInputs
    /\ apc = "check"
    /\ limits = [minTime |-> 0, maxTime |-> 0, targetConfidence |-> 0]
    /\ aclock = 0
    /\ checks = 0
    /\ lastCheck = [elapsed |-> 0]
    /\ lastRun = [samples |-> <<>>]
    /\ startTime = 0
    /\ IdleWorker
    /\ IdleSuite
    /\ IdleCollect
    /\ IdleMatrix
    /\ IdleBootstrap
    /\ IdleMerge
    /\ IdleGc

\* const convergence = checkConvergence(allSamples.map(s => s * msToNs))
CheckConvergence ==
    /\ apc = "check"
    /\ lastCheck' = [elapsed |-> 0, convergence |-> checkConvergence(toNs(allSamples))]
    /\ checks' = checks + 1
    /\ apc' = "checked"
    /\ UNCHANGED <<limits, allSamples, aclock, lastRun, startTime>>
    /\ UNCHANGED notAdaptive

NextConvergence == CheckConvergence

SpecConvergence == InitConvergence /\ [][NextConvergence]_vars

(* Claims about checkConvergence *)

\* the window of the call, and whether the call had two windows of samples
WindowOfCall == getWindowSize(toNs(allSamples))
TwoWindows == Len(allSamples) >= 2 * WindowOfCall
RecentWindow == SubSeq(allSamples, Len(allSamples) - WindowOfCall + 1, Len(allSamples))
PreviousWindow ==
    SubSeq(allSamples, Len(allSamples) - 2 * WindowOfCall + 1, Len(allSamples) - WindowOfCall)

\* C24: for every array of non-negative sample durations, windows of median
\* 0 included, checkConvergence returns a confidence that is a number in
\* [0, 100], and converged = true implies confidence = 100.
C24_ConfidenceRange ==
    apc = "checked" =>
       LET c == lastCheck.convergence
       IN  /\ c.confidence.kind = "num"
           /\ QLeq(QInt(0), c.confidence.q)
           /\ QLeq(c.confidence.q, QInt(100))
           /\ c.converged => c.confidence.q = QInt(100)

\* both drifts between the two windows are below 0.05: the medians differ by
\* less than 5 % of the previous median, the outlier impacts by less than 0.05
ClaimedStable ==
    LET mr == percentile(RecentWindow, 1, 2)
        mp == percentile(PreviousWindow, 1, 2)
        ir == getOutlierImpact(RecentWindow)
        ip == getOutlierImpact(PreviousWindow)
    IN  /\ mp # 0
        /\ 100 * Abs(mr - mp) < 5 * mp
        /\ QLess(QAbs(QSub(ir, ip)), Q(5, 100))

\* C26: checkConvergence returns converged = false with a reason beginning
\* 'Collecting samples' exactly when n < 2W; converged = true, confidence 100
\* and reason 'Stable performance pattern' exactly when n >= 2W and both the
\* median drift and the outlier-impact drift between the last W samples and
\* the W before them are < 0.05; and converged = false in every other case.
C26_ConvergenceCases ==
    apc = "checked" =>
       LET c == lastCheck.convergence
       IN  /\ (c.reason = "Collecting samples") <=> ~TwoWindows
           /\ c.reason = "Collecting samples" => ~c.converged
           /\ c.converged <=> (TwoWindows /\ (IF TwoWindows THEN ClaimedStable ELSE FALSE))
           /\ c.converged => (c.confidence = jsNum(QInt(100))
                              /\ c.reason = "Stable performance pattern")
           /\ (c.reason = "Stable performance pattern") => c.converged

\* C26 witness: a call with two windows whose medians agree but whose outlier
\* impacts differ, so it did not converge.
C26_Witness ==
    /\ apc = "checked"
    /\ TwoWindows
    /\ ~lastCheck.convergence.converged
    /\ IF TwoWindows
         THEN percentile(RecentWindow, 1, 2) = percentile(PreviousWindow, 1, 2)
              /\ percentile(PreviousWindow, 1, 2) > 0
         ELSE FALSE

\* C29: whenever checkConvergence has at least 2W samples and returns
\* converged = false, its confidence is at most 50.
C29_UnconvergedAtMostHalf ==
    (apc = "checked" /\ TwoWindows /\ ~lastCheck.convergence.converged) =>
        /\ lastCheck.convergence.confidence.kind = "num"
        /\ QLeq(lastCheck.convergence.confidence.q, QInt(50))

----------------------------------------------------------------------------
(* The collector: BasicRunner.runBench, collectSamples, runWarmup and
   runSampleLoop.  An option is a record: Absent when the options object has
   no such key, Undef when the key holds undefined, Val(n) when it holds the
   number n.  Times are whole milliseconds. *)

Absent == [key |-> FALSE]
Undef == [key |-> TRUE, def |-> FALSE]
Val(n) == [key |-> TRUE, def |-> TRUE, v |-> n]

\* every defined number counts as set, 0 included
Truthy_zeroIsSet(x) == x.key /\ x.def

\* !x is false: x is a number other than 0
Truthy(x) == x.key /\ x.def /\ x.v # 0

\* the most measured iterations of a run the model follows
MaxCount == 11

\* const defaultCollectOptions = { maxTime: 5000, maxIterations: 1000000, ... }
defaultCollectOptions ==
    [maxTime |-> Val(5000), maxIterations |-> Val(1000000), warmup |-> 0,
     noSettle |-> FALSE]

\* { ...defaultCollectOptions, ...options }: a key of options wins, even
\* when it holds undefined
mergeOption(default, option) == IF option.key THEN option ELSE default

\* const { pauseInterval = 0, pauseDuration = 100 } = p: the default applies
\* to a missing key and to undefined
destructure(option, default) ==
    IF option.key /\ option.def THEN option.v ELSE default

\* a % b of JavaScript for b > 0: the result has the sign of a
jsRem(a, b) == IF a >= 0 THEN a % b ELSE 0 - ((0 - a) % b)

shouldPause(iter, first, interval) ==
    IF first.def /\ iter = first.v THEN TRUE
    ELSE IF interval <= 0 THEN FALSE
    ELSE IF ~first.def THEN jsRem(iter, interval) = 0
    ELSE jsRem(iter - first.v, interval) = 0

\* elapsed with the pause time left in
elapsedOf_withPauses(now, pauseTime) == now

\* elapsed = performance.now() - loopStart - totalPauseTime
elapsedOf(now, pauseTime) == now - pauseTime

\* (!maxIterations || count < maxIterations) && (!maxTime || elapsed < maxTime)
loopCondition(prm, n, el) ==
    /\ IF Truthy(prm.maxIterations) THEN n < prm.maxIterations.v ELSE TRUE
    /\ IF Truthy(prm.maxTime) THEN el < prm.maxTime.v ELSE TRUE

\* the options given to runBench
MaxTimeOptions == {Absent, Undef, Val(0), Val(1), Val(4)}
MaxIterationsOptions == {Absent, Undef, Val(0), Val(3)}
WarmupOptions == {0, 2}
PauseFirstOptions == {Undef, Val(1), Val(3)}
PauseIntervalOptions == {Absent, Val(0), Val(2)}

\* time one measured iteration takes, and time by which a pause overruns
\* pauseDuration
IterationTimes == {0, 1, 2}
PauseLateness == {0, 1}

RunBenchOptions ==
    [maxTime : MaxTimeOptions, maxIterations : MaxIterationsOptions,
     warmup : WarmupOptions, skipWarmup : BOOLEAN, noSettle : BOOLEAN,
     pauseFirst : PauseFirstOptions, pauseInterval : PauseIntervalOptions,
     collect : BOOLEAN]

\* estimateSampleCount: maxIterations || Math.ceil(maxTime / 0.1); for the
\* whole milliseconds of MaxTimeOptions the quotient is exact
estimateSampleCount(mt, mi) ==
    IF Truthy(mi) THEN mi.v ELSE mt.v * 10

\* createSampleArrays: trackHeap is always true
createSampleArrays(n) == [samples |-> n, timestamps |-> n, heapSamples |-> n]

\* a[i] = x on an array of length len: the array grows to hold index i
lengthAfterStore(len, i) == IF i + 1 > len THEN i + 1 ELSE len

\* a trimArrays that leaves timestamps at its allocated length
trimArrays_samplesOnly(a, n) == [a EXCEPT !.samples = n, !.heapSamples = n]

\* trimArrays
trimArrays(a, n) == [samples |-> n, timestamps |-> n, heapSamples |-> n]

\* const opts = { ...defaultCollectOptions, ...options }
runBench(options) ==
    [options EXCEPT
       !.maxTime = mergeOption(defaultCollectOptions.maxTime, options.maxTime),
       !.maxIterations = mergeOption(defaultCollectOptions.maxIterations, options.maxIterations)]

InitCollect ==
    /\ cparams \in {runBench(o) : o \in RunBenchOptions}
    /\ cpc = "start"
    /\ warmupRuns = 0
    /\ settled = FALSE
    /\ count = 0
    /\ loopNow = 0
    /\ totalPauseTime = 0
    /\ loopElapsed = 0
    /\ busyTime = 0
    /\ pausePoints = <<>>
    /\ gcCalls = 0
    /\ arrays = [samples |-> 0, timestamps |-> 0, heapSamples |-> 0]
    /\ IdleWorker
    /\ IdleSuite
    /\ IdleAdaptive
    /\ IdleMatrix
    /\ IdleBootstrap
    /\ IdleMerge
    /\ IdleGc

\* collectSamples up to its first suspension: the configuration check, then
\* the warmup iterations and gc of runWarmup unless skipWarmup
CollectStart ==
    /\ cpc = "start"
    /\ IF ~Truthy(cparams.maxIterations) /\ ~Truthy(cparams.maxTime)
         THEN /\ cpc' = "At least one of maxIterations or maxTime must be set"
              /\ UNCHANGED <<warmupRuns, gcCalls, arrays>>
         ELSE /\ warmupRuns' = IF cparams.skipWarmup THEN 0 ELSE cparams.warmup
              /\ gcCalls' = IF cparams.skipWarmup THEN 0 ELSE 1
              /\ cpc' = IF ~cparams.skipWarmup /\ ~cparams.noSettle
                          THEN "settling" ELSE "loop"
              /\ arrays' = IF ~cparams.skipWarmup /\ ~cparams.noSettle
                             THEN arrays
                             ELSE createSampleArrays(estimateSampleCount(cparams.maxTime,
                                                                         cparams.maxIterations))
    /\ UNCHANGED <<cparams, settled, count, loopNow, totalPauseTime, loopElapsed,
                   busyTime, pausePoints>>
    /\ UNCHANGED notCollect

\* the settle sleep of runWarmup is over; runSampleLoop starts
SettleDone ==
    /\ cpc = "settling"
    /\ settled' = TRUE
    /\ gcCalls' = gcCalls + 1
    /\ arrays' = createSampleArrays(estimateSampleCount(cparams.maxTime, cparams.maxIterations))
    /\ cpc' = "loop"
    /\ UNCHANGED <<cparams, warmupRuns, count, loopNow, totalPauseTime, loopElapsed,
                   busyTime, pausePoints>>
    /\ UNCHANGED notCollect

\* one iteration of the while loop of runSampleLoop, with its pause if one
\* is scheduled
Iterate ==
    /\ cpc = "loop"
    /\ loopCondition(cparams, count, loopElapsed)
    /\ count < MaxCount
    /\ count' = count + 1
    /\ arrays' = [samples |-> lengthAfterStore(arrays.samples, count),
                  timestamps |-> lengthAfterStore(arrays.timestamps, count),
                  heapSamples |-> lengthAfterStore(arrays.heapSamples, count)]
    /\ \E t \in IterationTimes, late \in PauseLateness :
         LET pauseDuration == 100
             pause == shouldPause(count + 1, cparams.pauseFirst,
                                  destructure(cparams.pauseInterval, 0))
             paused == IF pause THEN pauseDuration + late ELSE 0
         IN  /\ IF pause THEN TRUE ELSE late = 0
             /\ pausePoints' = IF pause
                                 THEN Append(pausePoints,
                                             [sampleIndex |-> count, durationMs |-> pauseDuration])
                                 ELSE pausePoints
             /\ totalPauseTime' = totalPauseTime + paused
             /\ loopNow' = loopNow + t + paused
             /\ busyTime' = busyTime + t
             /\ loopElapsed' = elapsedOf(loopNow', totalPauseTime')
    /\ UNCHANGED <<cparams, cpc, warmupRuns, settled, gcCalls>>
    /\ UNCHANGED notCollect

\* the loop condition fails: runSampleLoop returns, and collectSamples
\* returns its result or throws for want of samples
LoopEnd ==
    /\ cpc = "loop"
    /\ ~loopCondition(cparams, count, loopElapsed)
    /\ arrays' = trimArrays(arrays, count)
    /\ cpc' = IF arrays'.samples = 0 THEN "No samples collected" ELSE "done"
    /\ UNCHANGED <<cparams, warmupRuns, settled, count, loopNow, totalPauseTime,
                   loopElapsed, busyTime, pausePoints, gcCalls>>
    /\ UNCHANGED notCollect

NextCollect ==
    \/ CollectStart
    \/ SettleDone
    \/ Iterate
    \/ LoopEnd

SpecCollect == InitCollect /\ [][NextCollect]_vars

----------------------------------------------------------------------------
(* Claims about the collector *)

\* a limit of the loop has been reached, time counted outside scheduled pauses
IterationLimitHit == Truthy(cparams.maxIterations) /\ count >= cparams.maxIterations.v
TimeLimitHit == Truthy(cparams.maxTime) /\ busyTime >= cparams.maxTime.v

\* C12: the measurement loop starts an iteration only while count <
\* maxIterations (when set) and elapsed < maxTime (when set), elapsed being the
\* wall time since loop start minus the accumulated pause time; so the number
\* of samples never exceeds maxIterations, the loop ends at the first limit
\* hit, and time spent in scheduled pauses never makes it stop earlier.
C12_LoopLimits ==
    /\ [](cpc \in {"loop", "done"} =>
            /\ loopElapsed = loopNow - totalPauseTime
            /\ loopElapsed = busyTime
            /\ Truthy(cparams.maxIterations) => count <= cparams.maxIterations.v)
    /\ [](cpc = "done" => (IterationLimitHit \/ TimeLimitHit))
    /\ [][(count' = count + 1) => ~IterationLimitHit /\ ~TimeLimitHit]_vars
    /\ [][(cpc = "loop" /\ (IterationLimitHit \/ TimeLimitHit)) =>
            (cpc' # "loop" /\ count' = count)]_vars

\* C12 witness: a loop with scheduled pauses has ended on maxTime, below its
\* iteration limit, after more wall time than maxTime.
C12_Witness ==
    /\ cpc = "done"
    /\ pausePoints # <<>>
    /\ TimeLimitHit
    /\ ~IterationLimitHit
    /\ Truthy(cparams.maxIterations)
    /\ loopNow > cparams.maxTime.v

\* the iterations after which the claim schedules a pause, among the first n
ClaimedPauses(first, interval, n) ==
    IF first.def
      THEN {i \in 1..n : \/ i = first.v
                         \/ interval > 0 /\ i > first.v /\ (i - first.v) % interval = 0}
      ELSE {i \in 1..n : interval > 0 /\ i % interval = 0}

\* C13: with pauseFirst set, pauses are taken after exactly the iterations
\* pauseFirst, pauseFirst + pauseInterval, pauseFirst + 2*pauseInterval, ...
\* (only pauseFirst when pauseInterval = 0), none before pauseFirst; with
\* pauseFirst unset, after every pauseInterval-th iteration, and never when
\* pauseInterval = 0.
C13_PauseSchedule ==
    cpc \in {"loop", "done"} =>
        {pausePoints[i].sampleIndex + 1 : i \in 1..Len(pausePoints)}
          = ClaimedPauses(cparams.pauseFirst, destructure(cparams.pauseInterval, 0), count)

\* the option is 0 or undefined
ZeroOrUndefined(x) == IF x.key /\ x.def THEN x.v = 0 ELSE TRUE

\* neither limit reaches the collector
NeitherLimit == ZeroOrUndefined(cparams.maxTime) /\ ZeroOrUndefined(cparams.maxIterations)

ConfigErrorThrown == cpc = "At least one of maxIterations or maxTime must be set"

\* C14: a collector run whose maxTime and maxIterations are both 0 or
\* undefined fails with a configuration error before any warmup iteration,
\* settle sleep or measured iteration is executed.
C14_ConfigError ==
    /\ []((cpc # "idle" /\ NeitherLimit) =>
            /\ cpc = "start" \/ ConfigErrorThrown
            /\ warmupRuns = 0
            /\ ~settled
            /\ count = 0)
    /\ [][(cpc = "start" /\ NeitherLimit) => ConfigErrorThrown']_vars

\* C14 witness: a run with warmup iterations and settle asked for, and both
\* limits 0, has failed with the configuration error.
C14_Witness ==
    /\ cpc = "At least one of maxIterations or maxTime must be set"
    /\ cparams.maxTime = Val(0)
    /\ cparams.maxIterations = Val(0)
    /\ cparams.warmup > 0
    /\ ~cparams.skipWarmup
    /\ ~cparams.noSettle

\* C21: when the collect option is true, every measured iteration is
\* followed by a forced garbage collection before the next iteration starts.
C21_GcAfterIteration ==
    [][(cparams.collect /\ count' = count + 1) => gcCalls' > gcCalls]_vars

\* the pause points have strictly increasing sample indices, all below n
PauseIndicesWithin(points, n) ==
    /\ \A i \in 1..Len(points) : points[i].sampleIndex < n
    /\ \A i \in 1..(Len(points) - 1) : points[i].sampleIndex < points[i + 1].sampleIndex

\* the capacity the arrays were allocated with
Capacity ==
    IF Truthy(cparams.maxIterations) THEN cparams.maxIterations.v ELSE 10 * cparams.maxTime.v

\* C23: every result the collector returns has at least one sample,
\* timestamps and heapSamples of the length of samples, and pause points whose
\* sample indices are strictly increasing and below the number of samples.
C23_ResultShape ==
    cpc = "done" =>
       /\ arrays.samples >= 1
       /\ arrays.samples = count
       /\ arrays.timestamps = arrays.samples
       /\ arrays.heapSamples = arrays.samples
       /\ PauseIndicesWithin(pausePoints, arrays.samples)

\* C23 witness: a result with more samples than the arrays were allocated
\* for, and several pause points.
C23_Witness ==
    /\ cpc = "done"
    /\ count > Capacity
    /\ Len(pausePoints) >= 2

----------------------------------------------------------------------------
(* runMatrix: BenchMatrix.ts.  An optional field is None or Some(value); a
   list is a sequence; a MeasuredResults is the record of the run that made
   it, with its samples. *)

None == [def |-> FALSE]
Some(x) == [def |-> TRUE, v |-> x]

\* list.includes(x)
Includes(list, x) == \E i \in 1..Len(list) : list[i] = x

\* the variants and cases a matrix may declare, and the filtered lists a
\* caller may pass
VariantLists == {<<"fast">>, <<"fast", "slow">>}
CaseLists == {<<"small", "large">>}
FilteredVariantLists == {<<"slow">>, <<"fast", "slow">>}
FilteredCaseLists == {<<"small">>}
BaselineVariants == {"fast", "nonexistent"}
\* the samples a run may measure
MeasuredSamples == {<<0, 0>>, <<1, 3>>}

Optional(values) == {None} \cup {Some(x) : x \in values}

\* variantDir and baselineDir are given or not; dirIds and baselineIds are the
\* variants discoverVariants finds in them
Matrices ==
    { mx \in [variantDir : BOOLEAN, dirIds : {<<>>} \cup VariantLists,
              variants : Optional(VariantLists), cases : Optional(CaseLists),
              baselineDir : BOOLEAN, baselineIds : {<<>>, <<"fast">>},
              baselineVariant : Optional(BaselineVariants)] :
        /\ ~mx.variantDir => mx.dirIds = <<>>
        /\ mx.baselineIds = (IF mx.baselineDir THEN <<"fast">> ELSE <<>>) }

MatrixOptions ==
    [filteredVariants : Optional(FilteredVariantLists),
     filteredCases : Optional(FilteredCaseLists)]

\* a validateBaseline that accepts every matrix
validateBaseline_never(mx) == "ok"

\* validateBaseline
validateBaseline(mx) ==
    IF mx.baselineDir /\ mx.baselineVariant.def
      THEN "BenchMatrix cannot have both 'baselineDir' and 'baselineVariant'"
      ELSE "ok"

\* resolveCases: options.filteredCases ?? matrix.cases ?? ["default"]
resolveCases(mx, options) ==
    IF options.filteredCases.def THEN options.filteredCases.v
    ELSE IF mx.cases.def THEN mx.cases.v
    ELSE <<"default">>

\* the variants run: options.filteredVariants ?? allVariantIds with
\* variantDir, the entries of matrix.variants that the filtered list includes
\* otherwise
variantIdsOf(mx, options) ==
    IF mx.variantDir
      THEN IF options.filteredVariants.def THEN options.filteredVariants.v ELSE mx.dirIds
      ELSE IF options.filteredVariants.def
             THEN LET keep(id) == Includes(options.filteredVariants.v, id)
                  IN  SelectSeq(mx.variants.v, keep)
             ELSE mx.variants.v

\* what runMatrix does before its first benchmark: the error it throws, or
\* "running", and the work done on the way
runMatrixStart(mx) ==
    IF validateBaseline(mx) # "ok"
      THEN [pc |-> validateBaseline(mx), work |-> {}]
    ELSE IF mx.variantDir
      THEN IF Len(mx.dirIds) = 0
             THEN [pc |-> "No variants found", work |-> {"discoverVariants"}]
             ELSE [pc |-> "running", work |-> {"discoverVariants"}]
    ELSE IF mx.variants.def
      THEN IF mx.baselineDir
             THEN [pc |-> "BenchMatrix with inline 'variants' cannot use 'baselineDir'. Use 'variantDir' instead.",
                   work |-> {}]
             ELSE [pc |-> "running", work |-> {}]
    ELSE [pc |-> "BenchMatrix requires either 'variants' or 'variantDir'", work |-> {}]

average(values) == Q(SumSeq(values), Len(values))

\* computeDeltaPercent; samples are not negative
computeDeltaPercent(baseline, current) ==
    LET baseAvg == average(baseline.samples)
    IN  IF baseAvg.num = 0 THEN QInt(0)
        ELSE QMul(QDiv(QSub(average(current.samples), baseAvg), baseAvg), QInt(100))

\* applyBaselineVariant: case ids are distinct within a variant
applyBaselineVariant(variants, baselineVariantId) ==
    IF ~\E i \in 1..Len(variants) : variants[i].id = baselineVariantId
      THEN variants
      ELSE LET b == CHOOSE i \in 1..Len(variants) :
                      /\ variants[i].id = baselineVariantId
                      /\ \A j \in 1..(i - 1) : variants[j].id # baselineVariantId
               has(caseId) == \E k \in 1..Len(variants[b].cases) :
                                 variants[b].cases[k].caseId = caseId
               get(caseId) == LET k == CHOOSE k \in 1..Len(variants[b].cases) :
                                           variants[b].cases[k].caseId = caseId
                              IN  variants[b].cases[k].measured
               withBaseline(c) ==
                   IF has(c.caseId)
                     THEN [c EXCEPT !.baseline = Some(get(c.caseId)),
                                    !.deltaPercent = Some(computeDeltaPercent(get(c.caseId), c.measured))]
                     ELSE c
           IN  [i \in 1..Len(variants) |->
                  IF variants[i].id = baselineVariantId THEN variants[i]
                  ELSE [variants[i] EXCEPT
                          !.cases = [k \in 1..Len(variants[i].cases) |->
                                        withBaseline(variants[i].cases[k])]]]

InitMatrix ==
    /\ matrix \in Matrices
    /\ moptions \in MatrixOptions
    /\ mfilter = [name |-> "none"]
    /\ mpc = "start"
    /\ mwork = {}
    /\ mresults = <<>>
    /\ IdleWorker
    /\ IdleSuite
    /\ IdleAdaptive
    /\ IdleCollect
    /\ IdleBootstrap
    /\ IdleMerge
    /\ IdleGc

\* runMatrix up to its first benchmark run
RunMatrixStart ==
    /\ mpc = "start"
    /\ mpc' = runMatrixStart(matrix).pc
    /\ mwork' = runMatrixStart(matrix).work
    /\ UNCHANGED <<matrix, mfilter, moptions, mresults>>
    /\ UNCHANGED notMatrix

\* one round of the loop over variants: every case of the next variant is
\* loaded and run (in a worker with variantDir, in process otherwise), and
\* with baselineDir its baseline too
RunVariantCases ==
    /\ mpc = "running"
    /\ Len(mresults) < Len(variantIdsOf(matrix, moptions))
    /\ LET id == variantIdsOf(matrix, moptions)[Len(mresults) + 1]
           caseIds == resolveCases(matrix, moptions)
           withBase == matrix.variantDir /\ matrix.baselineDir /\ Includes(matrix.baselineIds, id)
       IN  IF matrix.variantDir /\ ~Includes(matrix.dirIds, id) /\ Len(caseIds) > 0
             THEN /\ mpc' = "variant module not found"
                  /\ mwork' = mwork \cup {"worker"}
                  /\ UNCHANGED mresults
             ELSE \E ms \in [1..Len(caseIds) -> MeasuredSamples],
                     bs \in [1..Len(caseIds) -> MeasuredSamples] :
                    /\ IF withBase THEN TRUE ELSE bs = ms
                    /\ LET measured(k) == [variant |-> id, case |-> caseIds[k],
                                           dir |-> "variant", samples |-> ms[k]]
                           baseline(k) == [variant |-> id, case |-> caseIds[k],
                                           dir |-> "baseline", samples |-> bs[k]]
                           caseResult(k) ==
                               [caseId |-> caseIds[k],
                                measured |-> measured(k),
                                baseline |-> IF withBase THEN Some(baseline(k)) ELSE None,
                                deltaPercent |-> IF withBase
                                                   THEN Some(computeDeltaPercent(baseline(k), measured(k)))
                                                   ELSE None]
                       IN  mresults' = Append(mresults,
                                              [id |-> id,
                                               cases |-> [k \in 1..Len(caseIds) |-> caseResult(k)]])
                    /\ mwork' = IF Len(caseIds) = 0 THEN mwork
                                ELSE mwork \cup {"loadCase",
                                                 IF matrix.variantDir THEN "worker" ELSE "iteration"}
                    /\ UNCHANGED mpc
    /\ UNCHANGED <<matrix, mfilter, moptions>>
    /\ UNCHANGED notMatrix

\* every variant has run: the baseline variant is applied and runMatrix
\* returns
RunMatrixReturns ==
    /\ mpc = "running"
    /\ Len(mresults) = Len(variantIdsOf(matrix, moptions))
    /\ mresults' = IF matrix.baselineVariant.def
                     THEN applyBaselineVariant(mresults, matrix.baselineVariant.v)
                     ELSE mresults
    /\ mpc' = "done"
    /\ UNCHANGED <<matrix, mfilter, moptions, mwork>>
    /\ UNCHANGED notMatrix

NextMatrix ==
    \/ RunMatrixStart
    \/ RunVariantCases
    \/ RunMatrixReturns

SpecMatrix == InitMatrix /\ [][NextMatrix]_vars

----------------------------------------------------------------------------
(* Claims about runMatrix *)

BothBaselines == matrix.baselineDir /\ matrix.baselineVariant.def
InlineWithBaselineDir == matrix.variants.def /\ matrix.baselineDir
InlineOnlyWithBaselineDir == InlineWithBaselineDir /\ ~matrix.variantDir
RejectedForConflict ==
    /\ mpc \in {"BenchMatrix cannot have both 'baselineDir' and 'baselineVariant'",
                "BenchMatrix with inline 'variants' cannot use 'baselineDir'. Use 'variantDir' instead."}
    /\ mwork = {}
    /\ mresults = <<>>

\* C15 as stated: once runMatrix has started on a matrix that sets both
\* baselineDir and baselineVariant, or that has inline variants together with
\* baselineDir, it has rejected with the conflict error and has discovered no
\* variant, loaded no case, spawned no worker and run no iteration.
C15_AsStated ==
    (mpc # "start" /\ (BothBaselines \/ InlineWithBaselineDir)) => RejectedForConflict

\* C15 amended: the same, where the second conflict is inline variants and no
\* variantDir together with baselineDir; both-baselines is reported first.
C15_ConflictRejected ==
    /\ (mpc # "start" /\ (BothBaselines \/ InlineOnlyWithBaselineDir)) => RejectedForConflict
    /\ (mpc # "start" /\ BothBaselines)
          => mpc = "BenchMatrix cannot have both 'baselineDir' and 'baselineVariant'"

\* C15 witness: runMatrix rejected a matrix with a variantDir, both baselines
\* and variants to discover, with nothing discovered.
C15_Witness ==
    /\ BothBaselines
    /\ matrix.variantDir
    /\ Len(matrix.dirIds) > 0
    /\ RejectedForConflict

\* the variants of the matrix: those in variantDir, or the inline ones
VariantsOfMatrix ==
    IF matrix.variantDir THEN matrix.dirIds
    ELSE IF matrix.variants.def THEN matrix.variants.v
    ELSE <<>>

\* C16: runMatrix never completes normally when baselineVariant names a
\* variant that is not among the variants of the matrix (it rejects with
\* "Baseline variant '<id>' not found" instead).
C16_NotFoundRejects ==
    (matrix.baselineVariant.def /\ ~Includes(VariantsOfMatrix, matrix.baselineVariant.v))
        => mpc # "done"

\* the measured result of variant id for case caseId, if the run produced it
MeasuredFor(id, caseId, measured) ==
    \E i \in 1..Len(mresults) :
       /\ mresults[i].id = id
       /\ \E k \in 1..Len(mresults[i].cases) :
             /\ mresults[i].cases[k].caseId = caseId
             /\ mresults[i].cases[k].measured = measured

\* C17: after runMatrix with baselineVariant = B completes, every case result
\* of every other variant that was run carries B's measured result for the
\* same case as baseline, with a deltaPercent, and B's own case results carry
\* neither; filteredVariants and filteredCases included.
C17_BaselineAttached ==
    (mpc = "done" /\ matrix.baselineVariant.def) =>
        \A i \in 1..Len(mresults) : \A k \in 1..Len(mresults[i].cases) :
           LET c == mresults[i].cases[k]
           IN  IF mresults[i].id = matrix.baselineVariant.v
                 THEN ~c.baseline.def /\ ~c.deltaPercent.def
                 ELSE /\ c.baseline.def
                      /\ c.deltaPercent.def
                      /\ IF c.baseline.def
                           THEN MeasuredFor(matrix.baselineVariant.v, c.caseId, c.baseline.v)
                           ELSE FALSE

----------------------------------------------------------------------------
(* filterMatrix: matrix/MatrixFilter.ts.  A string is the sequence of its
   characters, so that matching is computed on the characters. *)

\* String.prototype.toLowerCase on the characters used
toLowerCase(str) ==
    [i \in 1..Len(str) |-> IF str[i] = "A" THEN "a" ELSE IF str[i] = "B" THEN "b" ELSE str[i]]

\* String.prototype.includes
StrIncludes(str, part) ==
    \E i \in 0..(Len(str) - Len(part)) : SubSeq(str, i + 1, i + Len(part)) = part

\* matchPattern
matchPattern(id, pattern) == StrIncludes(toLowerCase(id), toLowerCase(pattern))

\* !pattern: undefined or the empty string
NoPattern(pattern) == IF pattern.def THEN pattern.v = <<>> ELSE TRUE

\* the ids and patterns tried
IdAb == <<"a", "b">>
IdBc == <<"B", "c">>
IdDefault == <<"d", "e", "f", "a", "u", "l", "t">>
Patterns == {<<>>, <<"b">>, <<"A">>, <<"x">>}

FilteredMatrices ==
    [variants : Optional({<<IdAb>>, <<IdAb, IdBc>>}),
     variantDir : BOOLEAN,
     dirIds : {<<IdAb, IdBc>>},
     cases : Optional({<<IdAb, IdBc>>}),
     casesModule : Optional({<<IdBc>>}),
     filteredCases : Optional({<<IdBc>>, <<IdAb, IdBc>>}),
     filteredVariants : Optional({<<IdBc>>})]

MatrixFilters == Optional([case : Optional(Patterns), variant : Optional(Patterns)])

\* getFilteredCases: the error thrown, or the list returned
getFilteredCases(mx, casePattern) ==
    IF NoPattern(casePattern) THEN [err |-> "", list |-> None]
    ELSE LET caseIds == IF mx.casesModule.def THEN mx.casesModule ELSE mx.cases
             match(id) == matchPattern(id, casePattern.v)
         IN  IF ~caseIds.def THEN [err |-> "", list |-> Some(<<IdDefault>>)]
             ELSE IF Len(SelectSeq(caseIds.v, match)) = 0
               THEN [err |-> "No cases match filter", list |-> None]
               ELSE [err |-> "", list |-> Some(SelectSeq(caseIds.v, match))]

\* getFilteredVariants
getFilteredVariants(mx, variantPattern) ==
    IF NoPattern(variantPattern) THEN [err |-> "", list |-> None]
    ELSE LET match(id) == matchPattern(id, variantPattern.v)
             ids == IF mx.variants.def THEN mx.variants.v ELSE mx.dirIds
         IN  IF ~mx.variants.def /\ ~mx.variantDir
               THEN [err |-> "BenchMatrix requires 'variants' or 'variantDir'", list |-> None]
             ELSE IF Len(SelectSeq(ids, match)) = 0
               THEN [err |-> "No variants match filter", list |-> None]
               ELSE [err |-> "", list |-> Some(SelectSeq(ids, match))]

\* list && existing ? list.filter(x => existing.includes(x)) : (list ?? existing)
intersect(list, existing) ==
    IF list.def /\ existing.def
      THEN LET keep(x) == Includes(existing.v, x) IN Some(SelectSeq(list.v, keep))
      ELSE IF list.def THEN list ELSE existing

\* filterMatrix: the error it rejects with, or the matrix it returns
filterMatrix(mx, filter) ==
    IF ~filter.def THEN [pc |-> "returned", result |-> mx]
    ELSE IF NoPattern(filter.v.case) /\ NoPattern(filter.v.variant)
      THEN [pc |-> "returned", result |-> mx]
    ELSE LET caseList == getFilteredCases(mx, filter.v.case)
             variantList == getFilteredVariants(mx, filter.v.variant)
         IN  IF caseList.err # "" THEN [pc |-> caseList.err, result |-> mx]
             ELSE IF variantList.err # "" THEN [pc |-> variantList.err, result |-> mx]
             ELSE [pc |-> "returned",
                   result |-> [mx EXCEPT
                                 !.filteredCases = intersect(caseList.list, mx.filteredCases),
                                 !.filteredVariants = intersect(variantList.list, mx.filteredVariants)]]

InitFilter ==
    /\ matrix \in FilteredMatrices
    /\ mfilter \in MatrixFilters
    /\ moptions = [name |-> "none"]
    /\ mpc = "call"
    /\ mwork = {}
    /\ mresults = <<>>
    /\ IdleWorker
    /\ IdleSuite
    /\ IdleAdaptive
    /\ IdleCollect
    /\ IdleBootstrap
    /\ IdleMerge
    /\ IdleGc

\* one call of filterMatrix
FilterMatrix ==
    /\ mpc = "call"
    /\ mpc' = filterMatrix(matrix, mfilter).pc
    /\ mresults' = <<filterMatrix(matrix, mfilter).result>>
    /\ UNCHANGED <<matrix, mfilter, moptions, mwork>>
    /\ UNCHANGED notMatrix

NextFilter == FilterMatrix

SpecFilter == InitFilter /\ [][NextFilter]_vars

(* Claims about filterMatrix *)

CasePatternGiven == mfilter.def /\ ~NoPattern(mfilter.v.case)
VariantPatternGiven == mfilter.def /\ ~NoPattern(mfilter.v.variant)

\* a selection as the claim requires it: set, not empty, every id contains the
\* pattern case-insensitively and is in the list that was set before
Lower(ch) == IF ch = "A" THEN "a" ELSE IF ch = "B" THEN "b" ELSE ch
Contains(id, pattern) ==
    \E i \in 0..(Len(id) - Len(pattern)) :
       \A j \in 1..Len(pattern) : Lower(id[i + j]) = Lower(pattern[j])
GoodSelection(selected, pattern, before) ==
    /\ selected.def
    /\ IF selected.def
         THEN /\ Len(selected.v) > 0
              /\ \A i \in 1..Len(selected.v) :
                    /\ Contains(selected.v[i], pattern)
                    /\ before.def => Includes(before.v, selected.v[i])
         ELSE FALSE

\* C18: a filterMatrix call with a case pattern (resp. variant pattern) that
\* returns, returns a non-empty filteredCases (resp. filteredVariants) whose
\* ids all contain the pattern, case-insensitively, and all belong to the
\* filtered list set before the call, if any.
C18_FilterSelection ==
    mpc = "returned" =>
       /\ CasePatternGiven =>
             GoodSelection(mresults[1].filteredCases, mfilter.v.case.v, matrix.filteredCases)
       /\ VariantPatternGiven =>
             GoodSelection(mresults[1].filteredVariants, mfilter.v.variant.v, matrix.filteredVariants)

----------------------------------------------------------------------------
(* bootstrapDifferenceCI: StatisticalUtils.ts.  Samples are non-negative
   integers; a computed number is a fraction, an infinity or NaN (jsNum). *)

\* ((medC - medB) / medB) * 100 for integers medC and medB >= 0: division by
\* zero gives an infinity, 0 / 0 gives NaN
percentDifference(medC, medB) ==
    IF medB # 0 THEN jsNum(Q((medC - medB) * 100, medB))
    ELSE IF medC > medB THEN PosInfinity
    ELSE IF medC < medB THEN NegInfinity
    ELSE NaN

\* [...values].sort((a, b) => a - b): a stable insertion sort; a - b > 0
\* exactly when b < a, and a comparison that gives NaN counts as equal
RECURSIVE insertSorted(_, _)
insertSorted(sorted, x) ==
    IF sorted = <<>> THEN <<x>>
    ELSE IF jsLess(x, sorted[Len(sorted)])
      THEN Append(insertSorted(SubSeq(sorted, 1, Len(sorted) - 1), x), sorted[Len(sorted)])
      ELSE Append(sorted, x)

RECURSIVE sortNumbers(_)
sortNumbers(values) ==
    IF values = <<>> THEN <<>>
    ELSE insertSorted(sortNumbers(SubSeq(values, 1, Len(values) - 1)), values[Len(values)])

\* percentile of computed numbers, p = pn/pd
percentileOf(values, pn, pd) ==
    LET index == ((Len(values) * pn + pd - 1) \div pd) - 1
    IN  sortNumbers(values)[(IF index < 0 THEN 0 ELSE index) + 1]

\* computeInterval with confidence 0.95: alpha = 0.025
computeInterval(medians) ==
    <<percentileOf(medians, 25, 1000), percentileOf(medians, 975, 1000)>>

\* createResample: draws[k] is the index Math.floor(Math.random() * n) + 1
createResample(samples, draws) == [k \in 1..Len(samples) |-> samples[draws[k]]]

\* the result of bootstrapDifferenceCI once diffs is filled
differenceCI(baseline, current, ds) ==
    LET observedPercent == percentDifference(percentile(current, 1, 2), percentile(baseline, 1, 2))
        ci == computeInterval(ds)
        excludesZero == jsLess(jsNum(QInt(0)), ci[1]) \/ jsLess(ci[2], jsNum(QInt(0)))
    IN  [percent |-> observedPercent,
         ci |-> ci,
         direction |-> IF ~excludesZero THEN "uncertain"
                       ELSE IF jsLess(observedPercent, jsNum(QInt(0))) THEN "faster"
                       ELSE "slower"]

\* the sample arrays and the options.resamples tried
SampleArrays == {<<0, 0>>, <<0, 2>>, <<1, 3>>, <<2>>, <<3, 1, 4>>}
ResampleCounts == {1, 2}

InitBootstrap ==
    /\ bargs \in [baseline : SampleArrays, current : SampleArrays, resamples : ResampleCounts]
    /\ bpc = "loop"
    /\ diffs = <<>>
    /\ bresult = [name |-> "none"]
    /\ IdleWorker
    /\ IdleSuite
    /\ IdleAdaptive
    /\ IdleCollect
    /\ IdleMatrix
    /\ IdleMerge
    /\ IdleGc

\* one round of the resampling loop
Resample ==
    /\ bpc = "loop"
    /\ Len(diffs) < bargs.resamples
    /\ \E db \in [1..Len(bargs.baseline) -> 1..Len(bargs.baseline)],
          dc \in [1..Len(bargs.current) -> 1..Len(bargs.current)] :
          LET medB == percentile(createResample(bargs.baseline, db), 1, 2)
              medC == percentile(createResample(bargs.current, dc), 1, 2)
          IN  diffs' = Append(diffs, percentDifference(medC, medB))
    /\ UNCHANGED <<bargs, bpc, bresult>>
    /\ UNCHANGED notBootstrap

\* the loop is over: the interval and the direction are computed and returned
ReturnDifferenceCI ==
    /\ bpc = "loop"
    /\ Len(diffs) = bargs.resamples
    /\ bresult' = differenceCI(bargs.baseline, bargs.current, diffs)
    /\ bpc' = "returned"
    /\ UNCHANGED <<bargs, diffs>>
    /\ UNCHANGED notBootstrap

NextBootstrap ==
    \/ Resample
    \/ ReturnDifferenceCI

SpecBootstrap == InitBootstrap /\ [][NextBootstrap]_vars

(* Claims about bootstrapDifferenceCI *)

IsNegative(x) == (x.kind = "num" /\ x.q.num < 0) \/ (x.kind = "inf" /\ x.q.num < 0)
IsPositive(x) == (x.kind = "num" /\ x.q.num > 0) \/ (x.kind = "inf" /\ x.q.num > 0)

\* C19: for every result of bootstrapDifferenceCI, direction is 'faster'
\* exactly when the upper bound of the interval is < 0, 'slower' exactly when
\* the lower bound is > 0, and 'uncertain' otherwise.
C19_DirectionRule ==
    bpc = "returned" =>
       /\ bresult.direction = "faster" <=> IsNegative(bresult.ci[2])
       /\ bresult.direction = "slower" <=> IsPositive(bresult.ci[1])
       /\ bresult.direction = "uncertain"
             <=> (~IsNegative(bresult.ci[2]) /\ ~IsPositive(bresult.ci[1]))

\* the median of the baseline is 0: half of its values, rounded up, are 0
ZeroMedianBaseline ==
    LET n == Len(bargs.baseline)
    IN  2 * Cardinality({i \in 1..n : bargs.baseline[i] = 0}) >= n

\* C20: bootstrapDifferenceCI called with a baseline whose median is 0 returns
\* percent = 0, a finite number, and direction 'uncertain', for every current
\* sample array.
C20_ZeroMedianBaseline ==
    (bpc = "returned" /\ ZeroMedianBaseline) =>
       /\ bresult.percent.kind = "num"
       /\ bresult.percent.q.num = 0
       /\ bresult.direction = "uncertain"

----------------------------------------------------------------------------
(* mergeResults: RunBenchCLI.ts.  A MeasuredResults is its samples and its
   pausePoints, which may be undefined (None). *)

\* the results of one batch: the samples of a batch are told apart by their
\* values; pause points are in increasing order within the samples, as the
\* collector records them
BatchSamples == {<<5>>, <<1, 2>>, <<3, 4, 6>>}
PausePointLists(n) ==
    { pts \in UNION {[1..k -> [sampleIndex : 0..(n - 1), durationMs : {100}]] : k \in 0..n} :
        \A i \in 1..(Len(pts) - 1) : pts[i].sampleIndex < pts[i + 1].sampleIndex }
BatchResultValues ==
    UNION { [samples : {smp}, pausePoints : Optional(PausePointLists(Len(smp)))] :
              smp \in BatchSamples }
BatchCounts == {1, 2, 3}

\* results.flatMap(r => r.samples)
RECURSIVE flatMapSamples(_)
flatMapSamples(results) ==
    IF results = <<>> THEN <<>>
    ELSE flatMapSamples(SubSeq(results, 1, Len(results) - 1)) \o results[Len(results)].samples

\* the value of offset when the callback runs for results[k]
RECURSIVE offsetBefore(_, _)
offsetBefore(results, k) ==
    IF k <= 1 THEN 0 ELSE offsetBefore(results, k - 1) + Len(results[k - 1].samples)

\* an offset that stays 0
shiftBy_none(p, offset) == p

\* { sampleIndex: p.sampleIndex + offset, durationMs: p.durationMs }
shiftBy(p, offset) == [sampleIndex |-> p.sampleIndex + offset, durationMs |-> p.durationMs]

\* results.flatMap(r => (r.pausePoints ?? []).map(shift by offset))
RECURSIVE flatMapPausePoints(_, _)
flatMapPausePoints(results, k) ==
    IF k = 0 THEN <<>>
    ELSE LET pts == IF results[k].pausePoints.def THEN results[k].pausePoints.v ELSE <<>>
         IN  flatMapPausePoints(results, k - 1)
               \o [i \in 1..Len(pts) |-> shiftBy(pts[i], offsetBefore(results, k))]

\* mergeResults for a non-empty array of results
mergeResults(results) ==
    IF Len(results) = 1 THEN results[1]
    ELSE LET allPausePoints == flatMapPausePoints(results, Len(results))
         IN  [samples |-> flatMapSamples(results),
              pausePoints |-> IF Len(allPausePoints) # 0 THEN Some(allPausePoints) ELSE None]

InitMerge ==
    /\ batchResults \in UNION {[1..n -> BatchResultValues] : n \in BatchCounts}
    /\ merged = [name |-> "none"]
    /\ IdleWorker
    /\ IdleSuite
    /\ IdleAdaptive
    /\ IdleCollect
    /\ IdleMatrix
    /\ IdleBootstrap
    /\ IdleGc

\* one call of mergeResults
MergeResults ==
    /\ merged = [name |-> "none"]
    /\ merged' = mergeResults(batchResults)
    /\ UNCHANGED batchResults
    /\ UNCHANGED notMerge

NextMerge == MergeResults

SpecMerge == InitMerge /\ [][NextMerge]_vars

(* Claims about mergeResults *)

\* number of samples in the batches before batch k
SamplesBefore(k) ==
    LET lens == [i \in 1..(k - 1) |-> Len(batchResults[i].samples)] IN SumSeq(lens)

PointsOf(r) == IF r.pausePoints.def THEN r.pausePoints.v ELSE <<>>

\* C25: merging the per-batch results of one benchmark yields the batches'
\* samples concatenated in order, and each pause point of batch k appears with
\* its sampleIndex increased by the sample count of the batches before k, so
\* that every merged pause index is within the merged samples and refers to
\* the same sample as before.
C25_MergeOffsets ==
    merged # [name |-> "none"] =>
       LET n == Len(batchResults)
           all == Len(merged.samples)
       IN  /\ all = SamplesBefore(n + 1)
           /\ \A k \in 1..n : \A i \in 1..Len(batchResults[k].samples) :
                 merged.samples[SamplesBefore(k) + i] = batchResults[k].samples[i]
           /\ Len(PointsOf(merged)) = SumSeq([k \in 1..n |-> Len(PointsOf(batchResults[k]))])
           /\ \A j \in 1..Len(PointsOf(merged)) : PointsOf(merged)[j].sampleIndex < all
           /\ \A k \in 1..n : \A i \in 1..Len(PointsOf(batchResults[k])) :
                 LET p == PointsOf(batchResults[k])[i]
                     j == SumSeq([b \in 1..(k - 1) |-> Len(PointsOf(batchResults[b]))]) + i
                 IN  /\ PointsOf(merged)[j].sampleIndex = p.sampleIndex + SamplesBefore(k)
                     /\ PointsOf(merged)[j].durationMs = p.durationMs
                     /\ merged.samples[PointsOf(merged)[j].sampleIndex + 1]
                          = batchResults[k].samples[p.sampleIndex + 1]

\* C25 witness: three batches were merged, the second and the third with
\* pause points, the first without.
C25_Witness ==
    /\ merged # [name |-> "none"]
    /\ Len(batchResults) = 3
    /\ ~batchResults[1].pausePoints.def
    /\ Len(PointsOf(batchResults[2])) >= 1
    /\ Len(PointsOf(batchResults[3])) >= 2

----------------------------------------------------------------------------
(* GC trace lines: parseGcLine and aggregateGcStats (GcStats.ts)           *)
(*                                                                         *)
(* A string is the sequence of its characters.  All characters are ASCII,  *)
(* so a byte of the child's output is one character of data.toString().    *)

NL == "\n"

Digits == {"0", "1", "2", "3", "4", "5", "6", "7", "8", "9"}
Letters == {"a", "b", "c", "e", "g", "h", "l", "m", "n", "o", "p", "s", "u",
            "v", "x", "y", "z"}

\* \w of the regular expression
isWordChar(ch) == ch \in Letters \cup Digits \cup {"_"}

\* \s of the regular expression, and the characters trim() removes
isSpace(ch) == ch \in {" ", "\t", NL}

\* [^\s,] of the regular expression
isValueChar(ch) == ~isSpace(ch) /\ ch # ","

\* the length of the longest run of \w characters that starts at text[i]
RECURSIVE wordRun(_, _)
wordRun(text, i) ==
    IF i <= Len(text) /\ isWordChar(text[i]) THEN 1 + wordRun(text, i + 1) ELSE 0

\* the length of the longest run of [^\s,] characters that starts at text[i]
RECURSIVE valueRun(_, _)
valueRun(text, i) ==
    IF i <= Len(text) /\ isValueChar(text[i]) THEN 1 + valueRun(text, i + 1) ELSE 0

\* the match of /(\w+)=([^\s,]+)/ that starts at text[i], if there is one:
\* both groups are greedy, and a shorter key is never followed by "="
matchAt(text, i) ==
    LET k == wordRun(text, i)
        e == i + k
        v == IF k > 0 /\ e <= Len(text) /\ text[e] = "="
               THEN valueRun(text, e + 1) ELSE 0
    IN  IF v > 0
          THEN Some([key |-> SubSeq(text, i, e - 1),
                     value |-> SubSeq(text, e + 1, e + v),
                     next |-> e + v + 1])
          ELSE None

\* line.matchAll(/(\w+)=([^\s,]+)/g) from position i on: the matches, left
\* to right, none overlapping another
RECURSIVE matchAll(_, _)
matchAll(text, i) ==
    IF i > Len(text) THEN <<>>
    ELSE LET found == matchAt(text, i)
         IN  IF found.def
               THEN <<[key |-> found.v.key, value |-> found.v.value]>>
                       \o matchAll(text, found.v.next)
               ELSE matchAll(text, i + 1)

\* text.split(sep) for a separator of one character
RECURSIVE split(_, _)
split(text, sep) ==
    IF \A i \in 1..Len(text) : text[i] # sep THEN <<text>>
    ELSE LET i == CHOOSE i \in 1..Len(text) :
                     text[i] = sep /\ \A j \in 1..(i - 1) : text[j] # sep
         IN  <<SubSeq(text, 1, i - 1)>> \o split(SubSeq(text, i + 1, Len(text)), sep)

\* parseNvpFields: fields[key] = value for every match, in order
parseNvpFields(line) == matchAll(line, 1)

\* fields[key]: the value of the last match with that key, or undefined
RECURSIVE fieldOf(_, _)
fieldOf(fields, key) ==
    IF fields = <<>> THEN None
    ELSE IF fields[Len(fields)].key = key THEN Some(fields[Len(fields)].value)
    ELSE fieldOf(SubSeq(fields, 1, Len(fields) - 1), key)

PauseEq == <<"p", "a", "u", "s", "e", "=">>
Pause == <<"p", "a", "u", "s", "e">>
Gc == <<"g", "c">>
CodeS == <<"s">>
CodeScavenge == <<"s", "c", "a", "v", "e", "n", "g", "e">>
CodeMc == <<"m", "c">>
CodeMs == <<"m", "s">>
CodeMarkCompact == <<"m", "a", "r", "k", "-", "c", "o", "m", "p", "a", "c", "t">>
CodeMmc == <<"m", "m", "c">>
CodeMinorMc == <<"m", "i", "n", "o", "r", "-", "m", "c">>
CodeMinorMs == <<"m", "i", "n", "o", "r", "-", "m", "s">>

\* parseGcType
parseGcType(gcField) ==
    IF gcField \in {CodeS, CodeScavenge} THEN "scavenge"
    ELSE IF gcField \in {CodeMc, CodeMs, CodeMarkCompact} THEN "mark-compact"
    ELSE IF gcField \in {CodeMmc, CodeMinorMc, CodeMinorMs} THEN "minor-ms"
    ELSE "unknown"

digitValue(ch) == CHOOSE d \in 0..9 : ch = <<"0", "1", "2", "3", "4", "5", "6", "7", "8", "9">>[d + 1]

\* the length of the longest run of digits that starts at str[i]
RECURSIVE digitRun(_, _)
digitRun(str, i) ==
    IF i <= Len(str) /\ str[i] \in Digits THEN 1 + digitRun(str, i + 1) ELSE 0

\* the number written by a sequence of digits, 0 for none
RECURSIVE digitsValue(_)
digitsValue(ds) ==
    IF ds = <<>> THEN 0
    ELSE 10 * digitsValue(SubSeq(ds, 1, Len(ds) - 1)) + digitValue(ds[Len(ds)])

RECURSIVE pow10(_)
pow10(n) == IF n = 0 THEN 1 ELSE 10 * pow10(n - 1)

\* Number.parseFloat: the longest prefix that is a decimal literal (a sign,
\* digits, a point, digits), NaN when that prefix holds no digit.  The values
\* tried hold no exponent, no leading white space and no "Infinity".
parseFloat(str) ==
    LET signed == Len(str) >= 1 /\ str[1] \in {"-", "+"}
        s == IF signed THEN 2 ELSE 1
        a == digitRun(str, s)
        point == s + a <= Len(str) /\ str[s + a] = "."
        b == IF point THEN digitRun(str, s + a + 1) ELSE 0
        whole == digitsValue(SubSeq(str, s, s + a - 1))
        frac == digitsValue(SubSeq(str, s + a + 1, s + a + b))
        abs == Q(whole * pow10(b) + frac, pow10(b))
    IN  IF a + b = 0 THEN NaN
        ELSE IF signed /\ str[1] = "-" THEN jsNum(QSub(QInt(0), abs))
        ELSE jsNum(abs)

\* parseGcLine: the GcEvent, or undefined.  Of the event the type and the
\* pause are followed; the sizes (allocated, promoted, survived, collected)
\* decide nothing here.
parseGcLine(line) ==
    IF ~StrIncludes(line, PauseEq) THEN None
    ELSE LET fields == parseNvpFields(line)
             gc == fieldOf(fields, Gc)
             pause == fieldOf(fields, Pause)
         IN  IF ~gc.def THEN None
             ELSE LET type == parseGcType(gc.v)
                      pauseMs == parseFloat(IF pause.def THEN pause.v ELSE <<"0">>)
                  IN  IF pauseMs = NaN THEN None
                      ELSE Some([type |-> type, pauseMs |-> pauseMs])

\* aggregateGcStats, for the events from position i on
RECURSIVE aggregateFrom(_, _, _)
aggregateFrom(events, i, acc) ==
    IF i > Len(events) THEN acc
    ELSE LET e == events[i]
         IN  aggregateFrom(events, i + 1,
               [scavenges |-> acc.scavenges
                                + IF e.type \in {"scavenge", "minor-ms"} THEN 1 ELSE 0,
                markCompacts |-> acc.markCompacts
                                + IF e.type = "mark-compact" THEN 1 ELSE 0,
                gcPauseTime |-> jsAdd(acc.gcPauseTime, e.pauseMs)])

aggregateGcStats(events) ==
    aggregateFrom(events, 1,
        [scavenges |-> 0, markCompacts |-> 0, gcPauseTime |-> jsNum(QInt(0))])

(* One parseGcLine call *)

\* a b, with a blank between two parts that are not empty
joinFields(a, b) ==
    IF a = <<>> THEN b ELSE IF b = <<>> THEN a ELSE a \o <<" ">> \o b

\* what a line may hold for the pause: nothing, a number, a number with a
\* fraction, letters, a number followed by a letter, another key that ends in
\* "pause", and the key without a value
PauseFields ==
    {<<>>, PauseEq \o <<"1">>, PauseEq \o <<"2", ".", "5">>,
     PauseEq \o <<"a", "b", "c">>, PauseEq \o <<"1", "x">>,
     <<"x">> \o PauseEq \o <<"1">>, PauseEq}

\* what a line may hold for the collector: nothing, five of the codes of
\* parseGcType, a code it does not list, and the key without a value
GcFields ==
    {<<>>} \cup {Gc \o <<"=">> \o code :
                    code \in {CodeS, CodeScavenge, CodeMs, CodeMmc, CodeMinorMs,
                              <<"x", "y", "z">>, <<>>}}

Hello == <<"h", "e", "l", "l", "o">>

GcLines ==
    {joinFields(p, g) : p \in PauseFields, g \in GcFields}
      \cup {joinFields(g, p) : p \in PauseFields, g \in GcFields}
      \cup {Hello, <<" ">>}

NotCalled == [name |-> "none"]

InitParseGc ==
    /\ gcLine \in GcLines
    /\ gcEvent = NotCalled
    /\ childStdout = <<>>
    /\ pipe = <<>>
    /\ buffer = <<>>
    /\ gcEvents = <<>>
    /\ parentStdout = <<>>
    /\ resultMsg = "none"
    /\ gcStats = None
    /\ IdleWorker
    /\ IdleSuite
    /\ IdleAdaptive
    /\ IdleCollect
    /\ IdleMatrix
    /\ IdleBootstrap
    /\ IdleMerge

\* one call of parseGcLine
ParseGcLine ==
    /\ gcEvent = NotCalled
    /\ gcEvent' = parseGcLine(gcLine)
    /\ UNCHANGED <<childStdout, pipe, buffer, gcEvents, parentStdout, resultMsg,
                   gcStats, gcLine>>
    /\ UNCHANGED notGc

NextParseGc == ParseGcLine

SpecParseGc == InitParseGc /\ [][NextParseGc]_vars

(* Claims about parseGcLine *)

\* the words of a line that begin with key=, and the value such a word gives
WordsWith(line, key) ==
    {w \in {split(line, " ")[i] : i \in 1..Len(split(line, " "))} :
        Len(w) > Len(key) /\ SubSeq(w, 1, Len(key) + 1) = key \o <<"=">>}
ValueIn(w, key) == SubSeq(w, Len(key) + 2, Len(w))

RecognizedCodes ==
    {CodeS, CodeScavenge, CodeMc, CodeMs, CodeMarkCompact, CodeMmc, CodeMinorMc,
     CodeMinorMs}

\* a decimal number: digits, with at most one point among them
IsDecimal(v) ==
    LET a == digitRun(v, 1)
        point == a < Len(v) /\ v[a + 1] = "."
        b == IF point THEN digitRun(v, a + 2) ELSE 0
    IN  a + b > 0 /\ a + b + (IF point THEN 1 ELSE 0) = Len(v)

\* the lines for which the claim allows no event
NoEventExpected(line) ==
    \/ WordsWith(line, Pause) = {}
    \/ WordsWith(line, Gc) = {}
    \/ \E w \in WordsWith(line, Gc) : ValueIn(w, Gc) \notin RecognizedCodes
    \/ \E w \in WordsWith(line, Pause) : ~IsDecimal(ValueIn(w, Pause))

\* C28: parseGcLine yields no event for a line without a pause= field, for a
\* line whose gc= field is missing or holds none of the recognized codes, and
\* for a line whose pause= value is not a number; every event it does yield
\* has one of the three recognized types and a numeric pause.
C28_NoEventCases ==
    gcEvent # NotCalled =>
       /\ NoEventExpected(gcLine) => ~gcEvent.def
       /\ gcEvent.def =>
             /\ gcEvent.v.type \in {"scavenge", "mark-compact", "minor-ms"}
             /\ gcEvent.v.pauseMs.kind = "num"

----------------------------------------------------------------------------
(* GC trace capture of one worker run (RunnerOrchestrator.ts)              *)
(*                                                                         *)
(* The child was started with gcStats, so setupGcCapture listens to its    *)
(* stdout.  The child has written childStdout and then sent its result     *)
(* message; stdout and the IPC channel are two pipes, and the parent       *)
(* handles what is ready on them in either order.                          *)

\* the most lines the child writes
MaxLines == 2

GcLineS == PauseEq \o <<"1">> \o <<" ">> \o Gc \o <<"=">> \o CodeS
GcLineMs == Gc \o <<"=">> \o CodeMs \o <<" ">> \o PauseEq \o <<"2">>
TextLine == <<"o", "n">>
BlankLine == <<>>

OutputLines == {GcLineS, GcLineMs, TextLine, BlankLine}

\* the lines joined, each but the last followed by a newline
RECURSIVE joinLines(_)
joinLines(lines) ==
    IF Len(lines) = 1 THEN lines[1]
    ELSE lines[1] \o <<NL>> \o joinLines(Tail(lines))

\* what the child may write: complete lines, or complete lines and a last
\* line without its newline
ChildOutputs ==
    LET lists == UNION {[1..n -> OutputLines] : n \in 1..MaxLines}
    IN  {joinLines(l) \o <<NL>> : l \in lists} \cup {joinLines(l) : l \in lists}

\* line.trim()
RECURSIVE trimStart(_)
trimStart(str) ==
    IF str # <<>> /\ isSpace(str[1]) THEN trimStart(Tail(str)) ELSE str
RECURSIVE trimEnd(_)
trimEnd(str) ==
    IF str # <<>> /\ isSpace(str[Len(str)])
      THEN trimEnd(SubSeq(str, 1, Len(str) - 1)) ELSE str
trim(str) == trimEnd(trimStart(str))

\* the loop over the complete lines in the 'data' listener of setupGcCapture
RECURSIVE handleLines(_, _, _)
handleLines(lines, events, written) ==
    IF lines = <<>> THEN [gcEvents |-> events, parentStdout |-> written]
    ELSE LET event == parseGcLine(Head(lines))
         IN  IF event.def
               THEN handleLines(Tail(lines), Append(events, event.v), written)
               ELSE IF trim(Head(lines)) # <<>>
                 THEN handleLines(Tail(lines), events,
                                  Append(written, Head(lines) \o <<NL>>))
                 ELSE handleLines(Tail(lines), events, written)

InitGcCapture ==
    /\ childStdout \in ChildOutputs
    /\ pipe = childStdout
    /\ buffer = <<>>
    /\ gcEvents = <<>>
    /\ parentStdout = <<>>
    /\ resultMsg = "inflight"
    /\ gcStats = None
    /\ gcLine = <<>>
    /\ gcEvent = NotCalled
    /\ IdleWorker
    /\ IdleSuite
    /\ IdleAdaptive
    /\ IdleCollect
    /\ IdleMatrix
    /\ IdleBootstrap
    /\ IdleMerge

\* worker.stdout emits 'data' with the next k characters of the pipe: the
\* listener of setupGcCapture.  The listener is never removed, so it also
\* runs for data that arrives after the result message was handled.
StdoutData ==
    /\ pipe # <<>>
    /\ \E k \in 1..Len(pipe) :
          LET data == SubSeq(pipe, 1, k)
              lines == split(buffer \o data, NL)
              done == handleLines(SubSeq(lines, 1, Len(lines) - 1), gcEvents,
                                  parentStdout)
          IN  /\ pipe' = SubSeq(pipe, k + 1, Len(pipe))
              /\ buffer' = lines[Len(lines)]
              /\ gcEvents' = done.gcEvents
              /\ parentStdout' = done.parentStdout
    /\ UNCHANGED <<childStdout, resultMsg, gcStats, gcLine, gcEvent>>
    /\ UNCHANGED notGc

\* the parent handles the result message: the handler of createMessageHandler
\* calls cleanup (the timer and the kill are followed in the worker machine)
\* and then resolve of createWorkerHandlers, which attaches the statistics of
\* the events captured so far
HandleResult ==
    /\ resultMsg = "inflight"
    /\ resultMsg' = "handled"
    /\ gcStats' = IF Len(gcEvents) # 0 THEN Some(aggregateGcStats(gcEvents)) ELSE None
    /\ UNCHANGED <<childStdout, pipe, buffer, gcEvents, parentStdout, gcLine, gcEvent>>
    /\ UNCHANGED notGc

NextGcCapture == StdoutData \/ HandleResult

SpecGcCapture == InitGcCapture /\ [][NextGcCapture]_vars

(* Claims about the capture *)

\* the lines of a text: its pieces between newlines, a last piece without a
\* newline included
LinesOf(text) ==
    LET pieces == split(text, NL)
    IN  IF pieces[Len(pieces)] = <<>> THEN SubSeq(pieces, 1, Len(pieces) - 1)
        ELSE pieces

IsGcLine(l) == parseGcLine(l).def
IsOtherLine(l) == ~parseGcLine(l).def

\* the events of the GC lines of a text, in order
EventsIn(text) ==
    LET ls == SelectSeq(LinesOf(text), IsGcLine)
    IN  [i \in 1..Len(ls) |-> parseGcLine(ls[i]).v]

\* its other lines as they are written to stdout, in order
PassedOn(text) ==
    LET ls == SelectSeq(LinesOf(text), IsOtherLine)
    IN  [i \in 1..Len(ls) |-> ls[i] \o <<NL>>]

\* C27: once all the child's output has been delivered, however it was cut
\* into chunks, every line of it - a blank line and a last line without a
\* newline included - was handled exactly once: the lines that parse as GC
\* events are the recorded events, in order, and every other line was written
\* unchanged to the parent's stdout.
C27_EveryLineHandledOnce ==
    pipe = <<>> /\ resultMsg # "none" =>
       /\ gcEvents = EventsIn(childStdout)
       /\ parentStdout = PassedOn(childStdout)

\* C30: the gcStats attached when the result message is handled aggregate
\* every GC trace line the child wrote before it sent that message, whatever
\* part of the child's stdout the parent had handled by then.
C30_StatsCoverAllLines ==
    resultMsg = "handled" =>
       gcStats = IF Len(EventsIn(childStdout)) # 0
                   THEN Some(aggregateGcStats(EventsIn(childStdout)))
                   ELSE None

====
